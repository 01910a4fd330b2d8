------------------------------- MODULE JitRun -------------------------------
(***************************************************************************)
(* run_jit (src/codegen/llvm_emitter.cpp): a compiled model is called in   *)
(* place with one buffer, whose sizes come from the command line.          *)
(*                                                                         *)
(* The host passes the addresses of two descriptors, in_desc of rank 4 and *)
(* out_desc of rank 2, whatever the model looks like.  A descriptor is the *)
(* sequence of its words: base, data, offset, sizes, strides.  The callee  *)
(* (external) takes from those words what the types of its own arguments   *)
(* tell it to.  An access outside a buffer or a descriptor is undefined    *)
(* behaviour: the run ends as "undefined".                                 *)
(*                                                                         *)
(* A definition called ..._bug is a slip one could make in the definition  *)
(* it precedes; it is used nowhere and serves to see a property fail.      *)
(***************************************************************************)
EXTENDS Sequences, Integers

CONSTANTS
    Functions,   \* @main as compiled: [args, results], lists of types
    Options,     \* RunOptions: [N, C, H, W, out_elems, file]
    Dynamic,     \* a size of a type that is not known when compiling
    NoFile,      \* no input_path
    Missing,     \* a file that cannot be opened; else its length in floats
    Limit        \* int64_t holds -Limit .. Limit - 1

(***************************************************************************)
(* A type is the list of its sizes.  Results have at most two, because the *)
(* code generator collapses the others.                                    *)
(***************************************************************************)
Type == Seq(Nat \cup {Dynamic})

ASSUME FunctionAssumption == \A f \in Functions :
    /\ f.args \in Seq(Type) /\ f.results \in Seq(Type)
    /\ \A i \in DOMAIN f.results : Len(f.results[i]) <= 2

ASSUME OptionAssumption == \A given \in Options :
    /\ given.N \in Int /\ given.C \in Int /\ given.H \in Int /\ given.W \in Int
    /\ given.out_elems \in Int /\ given.file \in Nat \cup {NoFile, Missing}

ASSUME WordAssumption == Limit \in Nat \ {0} /\ {Dynamic, NoFile, Missing} \cap Int = {}

VARIABLES
    main,      \* the function called
    options,   \* what it is called with
    pc,        \* "create", ..., "ok" (exit 0), "error" (exit 1), "undefined"
    input,     \* number of floats of the input buffer
    taken,     \* <<index, position>>: the callee took its element from there
    printed    \* number of floats printed

vars == <<main, options, pc, input, taken, printed>>

-----------------------------------------------------------------------------
(* The host's side *)

\* Signed overflow wraps in the builds there are.
Wrap(n) == ((n + Limit) % (2 * Limit)) - Limit

in_elems == Wrap(options.N * options.C * options.H * options.W)
out_elems == IF options.out_elems > 0 THEN options.out_elems ELSE 1

\* base, data, offset; sizes; strides
in_desc_bug ==      \* the strides of the layout [N, H, W, C]
    <<"input", "input", 0, options.N, options.C, options.H, options.W,
      Wrap(options.C * options.H * options.W), 1, Wrap(options.C * options.W), options.C>>
in_desc ==
    <<"input", "input", 0, options.N, options.C, options.H, options.W,
      Wrap(options.C * options.H * options.W), Wrap(options.H * options.W), options.W, 1>>
out_desc == <<"output", "output", 0, 1, out_elems, out_elems, 1>>

-----------------------------------------------------------------------------
(* The callee's side *)

Words(type) == 3 + 2 * Len(type)

\* Of at most four numbers, as many as the descriptors have room for.
At(s, d, none) == IF d \in DOMAIN s THEN s[d] ELSE none
Sum(s)     == At(s, 1, 0) + At(s, 2, 0) + At(s, 3, 0) + At(s, 4, 0)
Product(s) == At(s, 1, 1) * At(s, 2, 1) * At(s, 3, 1) * At(s, 4, 1)

\* _mlir_ciface_main takes the address for all results, if there are any, and then that
\* of each argument; the host passes two.
Passed == <<out_desc, in_desc>>
Descriptor(i) == Passed[IF main.results = << >> THEN i ELSE i + 1]
FirstArgument == IF main.results = << >> THEN 1 ELSE 2

\* An argument needs an address that was passed, with enough words behind it; the
\* results, of three words or more, are written one after the other over out_desc.
Fits ==
    /\ \A i \in DOMAIN main.args :
            /\ FirstArgument + i - 1 \in DOMAIN Passed
            /\ Words(main.args[i]) <= Len(Descriptor(i))
    /\ Len(main.results) <= 2
    /\ Sum([i \in DOMAIN main.results |-> Words(main.results[i])]) <= Len(out_desc)

\* Known sizes are compiled in; the others, and all strides, are read.
Sizes(i) == LET type == main.args[i] IN
    [d \in DOMAIN type |-> IF type[d] = Dynamic THEN Descriptor(i)[3 + d] ELSE type[d]]
Strides(i) == LET rank == Len(main.args[i]) IN
    [d \in 1 .. rank |-> Descriptor(i)[3 + rank + d]]

Indices(sizes) == {index \in [DOMAIN sizes -> UNION {0 .. sizes[d] - 1 : d \in DOMAIN sizes}] :
                       \A d \in DOMAIN sizes : index[d] < sizes[d]}
Position(index, strides) == Sum([d \in DOMAIN index |-> index[d] * strides[d]])

\* The callee reads every element of its arguments.
Accesses(i) == {<<index, Position(index, Strides(i))>> : index \in Indices(Sizes(i))}

Buffer(i) == IF Descriptor(i)[2] = "input" THEN input ELSE out_elems
InBuffer(i) == /\ \A d \in DOMAIN Sizes(i) : Sizes(i)[d] >= 0
               /\ \A access \in Accesses(i) : access[2] \in 0 .. Buffer(i) - 1

\* A dynamic size of a result is that of the first dimension, the batch.
ResultSizes == LET type == main.results[1] IN
    [d \in DOMAIN type |-> IF type[d] = Dynamic THEN Sizes(1)[1] ELSE type[d]]

\* What out_desc.data points to when the callee is back.
Printable == IF main.results = << >> THEN out_elems ELSE Product(ResultSizes)

-----------------------------------------------------------------------------
Init == /\ main \in Functions /\ options \in Options
        /\ pc = "create" /\ input = 0 /\ taken = {} /\ printed = 0

Goto(there) == pc' = there /\ UNCHANGED <<main, options>>

\* ExecutionEngine::create may fail.
Create ==
    /\ pc = "create"
    /\ Goto("allocate") \/ Goto("error")
    /\ UNCHANGED <<input, taken, printed>>

\* A negative number is a length no vector can have, and memory may not do for any
\* other; either throws (std::length_error, std::bad_alloc), which main reports.
Allocate ==
    /\ pc = "allocate"
    /\ \/ Goto("error") /\ UNCHANGED input
       \/ /\ in_elems >= 0 /\ input' = in_elems
          /\ Goto(IF options.file = NoFile THEN "lookup" ELSE "open")
    /\ UNCHANGED <<taken, printed>>

Open ==
    /\ pc = "open"
    /\ Goto(IF options.file = Missing THEN "error" ELSE "read")
    /\ UNCHANGED <<input, taken, printed>>

Read_bug ==      \* any number of floats will do
    /\ pc = "read"
    /\ Goto("lookup")
    /\ UNCHANGED <<input, taken, printed>>

\* A file that is too long is as good as another.
Read ==
    /\ pc = "read"
    /\ Goto(IF options.file < in_elems THEN "error" ELSE "lookup")
    /\ UNCHANGED <<input, taken, printed>>

\* The output buffer may not be had either, nor the function be found.
Lookup ==
    /\ pc = "lookup"
    /\ Goto("call") \/ Goto("error")
    /\ UNCHANGED <<input, taken, printed>>

Call ==
    /\ pc = "call"
    /\ IF Fits /\ \A i \in DOMAIN main.args : InBuffer(i)
       THEN /\ Goto("print")
            /\ taken' = IF main.args = << >> THEN {} ELSE Accesses(1)
       ELSE Goto("undefined") /\ UNCHANGED taken
    /\ UNCHANGED <<input, printed>>

\* As many as were asked for, not as many as there are.
PrintResult ==
    /\ pc = "print"
    /\ IF out_elems <= Printable
       THEN Goto("ok") /\ printed' = out_elems
       ELSE Goto("undefined") /\ UNCHANGED printed
    /\ UNCHANGED <<input, taken>>

Ended == pc \in {"ok", "error", "undefined"}

Next == \/ Create \/ Allocate \/ Open \/ Read \/ Lookup \/ Call \/ PrintResult
        \/ (Ended /\ UNCHANGED vars)
Spec == Init /\ [][Next]_vars

-----------------------------------------------------------------------------
(* Properties *)

\* The last index runs fastest.
RowMajor(index, sizes) ==
    Sum([d \in DOMAIN sizes |-> index[d] * Product(SubSeq(sizes, d + 1, Len(sizes)))])

\* The elements are those of the file, in the order that raw float32 data have.
InOrder == taken = {<<index, RowMajor(index, Sizes(1))>> : index \in Indices(Sizes(1))}

OneToOne == Len(main.args) = 1 /\ Len(main.results) = 1
Given(sizes) == /\ options.N = sizes[1] /\ options.C = sizes[2]
                /\ options.H = sizes[3] /\ options.W = sizes[4]
Positive == \A n \in {options.N, options.C, options.H, options.W} : n > 0

\* The model takes one image of rank 4 and the options say how large it is and how many
\* numbers come out, which fits int64_t.
Agrees ==
    /\ OneToOne /\ Len(main.args[1]) = 4 /\ Positive /\ Given(Sizes(1))
    /\ options.N * options.C * options.H * options.W < Limit
    /\ out_elems = Product(ResultSizes)

\* Where the options agree with the model, nothing is undefined and a run that returns 0
\* has fed the buffer to the model in its order and printed the whole result, whether
\* sizes are compiled in or read from the descriptor.
AgreeingRunIsRight ==
    Agrees => /\ pc # "undefined"
              /\ pc = "ok" => InOrder /\ printed = Product(ResultSizes)

\* Whatever the model and the options: when a run with a file returns 0, each element
\* that the model took from the input buffer was in the file ("expected ... floats in
\* input file"), none is a zero that the buffer held before.
NoElementMadeUp ==
    pc = "ok" /\ options.file # NoFile /\ FirstArgument = 2 =>
        \A access \in taken : access[2] < options.file

\* --run: "JIT-compile and run the model" (main.cpp:51-53).  A model with one argument
\* of rank 1 to 4, its sizes given from --in-N on and the rest left at 1, is fed its
\* elements in their order.
RunsTheModel ==
    LET Filled(sizes) == sizes \o [d \in 1 .. 4 - Len(sizes) |-> 1]
    IN  OneToOne /\ Len(main.args[1]) \in 1 .. 4 /\ Given(Filled(main.args[1])) =>
            (pc = "ok" => InOrder)

=============================================================================
