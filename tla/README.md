# TensorCompiler: a TLA+ verification development

TensorCompiler reads an ONNX file into a graph, emits MLIR for it, lowers that to LLVM and
writes assembly, an object file or a shared library, or runs the model at once. It is one
sequential process. What is hard to get right in it is not scheduling but

* operations that fail half way and leave raw pointers behind (`add_node`),
* a consistency check that has to notice every way this can go wrong (`verify`),
* assumptions about the input that no step checks (nodes in topological order, single
  assignment, tensors whose bytes fit their type),
* maps keyed by names that are overwritten as the compiler goes along (`value_map_`),
* sizes of tensors computed by hand next to what MLIR verifies and what ONNX means,
* descriptors that a host and a compiled function must lay out alike,
* files shared with other runs of the compiler, and runs that are killed.

All paths below are relative to the repository.

## 1. Inventory

| component | state | operations | meets | correct when |
|---|---|---|---|---|
| **Graph** (`include/graph/*.hpp`, `src/graph/verify_graph.cpp`) | `nodes_`, `values_`, `value_map_`, three lists of marked values, `auto_node_counter_`; in each value its flags, `producer_`, `consumers_`, shape, type, data | `get_or_create_value`, `find_value`, `mark_as_*`, `set_*`, `add_node`, `verify` | everyone below | links of values and nodes mirror each other; a producer is final; `verify` throws exactly when a call has done harm |
| **Importer** (`src/importer.cpp`) | the graph it fills, `init_names` | four loops over the file, attributes of nodes, `verify` | Graph | the graph is the file's, or an exception; bytes are read with their own type |
| **MLIR codegen** (`src/codegen/mlir_gen.cpp`) | `value_map_`, the function body | bind arguments, emit initializers, emit nodes, collect outputs | reads Graph | operands are the values their names mean; unsorted graphs are refused; sizes are ONNX's or the model is refused; it ends |
| **Lowering pipeline** (`src/codegen/lowering_pipeline.cpp`) | the MLIR module | a fixed list of passes | MLIR codegen | only the LLVM dialect is left, and the wrapper where the JIT needs it |
| **LLVM emitter** (`src/codegen/llvm_emitter.cpp`, `emit_output`) | files: the output, `.tmp.o` | translate, open, write, rename, link, remove | the file system, `clang` | exit 0 means that the artifact is in place; nothing is left over |
| **JIT** (`run_jit`) | buffers, descriptors | load, read the input, call, print | LLVM | where options and model agree, elements arrive in their order and the whole result is printed |
| **Driver** (`src/main.cpp`) | options | one mode for each run | all | exit code 0 means that the mode asked for was served; a mistaken run changes no file |
| **Graphviz export** (`src/graph/dot_export.cpp`) | none | `dump_dot` | reads Graph | edges are the links of the graph, between vertices that are written |

There are no threads, timers or messages. Concurrency is that of several compilers in one
directory; recovery is running a killed compiler again.

## 2. Modules

```
TensorGraph <-- Importer --implements--> ImportContract --> OnnxModel
     ^
     +--------- DotExport             MlirGen   ShapeRules   JitRun

                                      Driver --> LlvmEmitter
                                        +------> LoweringPipeline
```
An arrow is EXTENDS or INSTANCE. Each MC module gives a module its instance for TLC, and each
...Proofs module extends the module it is about; ImporterProofs and DotExportProofs build on
TensorGraphProofs, DriverProofs on LlvmEmitterProofs. ImporterProofs has the refinement too.

### TensorGraph: the graph and `verify`
A `Value*` is `<<owner, name>>` and a `Node*` is `<<owner, position>>`: a builder makes at
most one value for a name and frees nothing. Several builders exist because no operation
asks who owns a pointer. `values_` stands for `values_` and `value_map_` together.
`producer`, `consumers`, `listed` (the three lists) and `flagged` (the three flags) are the
members of the same names; `consumers` is a set, while the vector in the code has one entry
for each input slot (nothing reads the multiplicity). `damaged` is a history variable: the
builders that some call has left in a state their own graph does not justify.

The operators `get_or_create_value`, `mark_as`, `add_node` state what the function writes;
the actions are those plus a frame, and Importer reuses the operators. `add_node` has the
order of the code: the node is appended, the inputs are told, outputs are linked one by one
and the first taken one throws, with nothing undone. `verify` is the conjunction of its
checks; the two that compare `values_` with `value_map_` cannot fail in this model, because
no function writes one without the other.

### OnnxModel, ImportContract, Importer: `import_onnx`
OnnxModel says which files are importable (`Importable`: no input after a gap, all output
slots distinct) and what their graph is (`Translation`), without loops or builders: a list of
the graph is the names at certain positions of a list of the file (`Chosen`), a property of a
value the last entry that gives it (`LastEntry`).
ImportContract is the abstract specification: one answer, the graph or an exception.
Importer is the code: one step for each entry of each list, into TensorGraph's builder, then
`verify`. The attributes of a node are the map that `parse_attributes` fills, one entry a step
(`ParseAttribute`), before `ImportNode` makes the node.
`ImplementsContract` is the safety part of the contract, with `result` given by the builder once
the import is done (`Answered`); `AnswersAtLast` is its fairness. A shape, a type or the bytes of a tensor are stood for by the entry of the file they came
from, so that mixing two entries is visible.
In two places nothing but the code says what should happen, and the contract takes over its
choice, so that the refinement cannot judge it: an empty output name becomes a value called ""
(`importer.cpp:212`), and a repeated initializer of a storage that is not read leaves the bytes of
the earlier one (`importer.cpp:76`; the schema forbids to repeat one).

### MlirGen: `graph_to_mlir`
`value_map_` gives each name its current SSA value and rank. A node is emitted
(`EmitNode`), refused at once (`RefuseNode`: unknown kind, too few slots, an operand that is
not bound), refused after first uses (`RefuseNodeLate`: Gemm with both transpositions, a
missing bias, a Softmax axis, Reshape without data) or indexes a dimension its operand does
not have (`LoseNode`). The last is undefined behaviour: the run ends as `"undefined"`. An
initializer whose bytes do not fit its type ends so, too. Elements are floats, lists of attributes
are complete; sizes are those of ShapeRules. Of the shape of a Reshape the code looks at the number
of bytes only, and so does the model: that it is int64 is a comment (`mlir_gen.cpp:630`).
`WellFormed` is a definition of its own, written from ONNX's rules: supported operators in
topological order, tensors with data, and some ranks of the results that agree at every node.

### ShapeRules: the sizes of `graph_to_mlir`
A chain of nodes, each on the result of the one before. A tensor has a type, with `Dynamic`
(`-Limit`, the least int64_t) for an unknown size, and the shape it has at run time. An
emitter is an operator: the operations it creates, with their operands and indexing maps, and
the result. Three checks meet: what the emitter itself looks at, what MLIR's verifier looks at
(external: a linalg operation of which a loop's range is unknown is not checked, and unknown
or empty dimensions are passed over) and what has to hold when the loops run. ONNX's shapes
are definitions of their own; the number of windows in particular is counted, not computed
with the code's formula. A size that overflows ends a chain as `"overflow"`, a type with a
negative size as `"ill-formed"`. `SupportedCompiles` takes the operators on images (Conv, MaxPool,
GlobalAveragePool, BatchNormalization) as supported for rank 4, which is what their emitters are
written for: they index four dimensions and look at no rank.

### LlvmEmitter: `emit_output`
One process for each place the compiler is run from. `dir` maps a path to a file and
`content` a file to what it holds, because a renamed file stays open. Steps are those of
`emit_codegen_file`, with every failure the code looks at, and a kill between any two. The
linker (external) reads its input and later puts a new file at the output path. The
directory is writable throughout, so `rename`, whose result is ignored, fails only when the
file is gone. A write that the disk refuses is not modelled, nor is a linker that outlives
a compiler killed alone.

### JitRun: `run_jit`
The host's half builds the two descriptors, sequences of words, and passes their addresses.
The compiled function (external) takes sizes and strides from those words as its own types
tell it to, because bufferization gives arguments a layout that is unknown when compiling. An
access outside a buffer or a descriptor ends the run as `"undefined"`. `taken` records which
element of the argument came from which place of the buffer. A vector may be refused by the memory at any length, and is at a negative one. `int64_t` wraps at `Limit`, which is
2^63 in the program. `Sum` and `Product` are of at most four numbers: an argument of higher rank
needs more words than were passed and is not evaluated.

### LoweringPipeline: `run_lowering_pipeline`
A module is the set of kinds of operations in it, and `Lowered` is the composition of the stages
of the pipeline in their order. What a conversion takes away and may add is MLIR's part
(external), stated as an upper bound and only as far as the order of the passes matters; those
facts are the model's assumption, the order is the code's. One fact depends on the model that is
compiled: `static` says that the affine operations which `expand-strided-metadata` makes fold away.
A model with known sizes is static; of models with unknown ones some may be and some not, and the
instance has both. Where one is not, an affine operation stays and the translation fails.

### Driver: `main`
EXTENDS LlvmEmitter: the program of each process starts at `import`, goes through the mode
that was asked for, and where `main` calls `emit_output` it takes LlvmEmitter's actions. Its
outcomes `"ok"` and `"error"` are the exit codes 0 and 1. Importer, MlirGen and JitRun enter by
their contracts: a file can be imported or not, emitted or not, a JIT run fails or not. Both
builds are there (`codegen`). `Requests` gives each process its command lines; `PathsOf` are the
paths that they have files written to, temporaries included, and `OnItsOwn` says of a process that
no other has one of them.

### DotExport: `dump_dot`
The statements written for a graph, as sets, over every state of TensorGraph. Graphviz makes
one vertex of statements with one id, so `dot_id` is a constant operator, which the instance
lets merge two names.

Definitions called `..._bug` are slips one could make at that place. The specifications do
not use them; each makes one property fail, which shows that the property can.

## 3. Runs

| run | instance | shows |
|---|---|---|
| graph_one | 1 builder, 2 names, <= 3 nodes with <= 1 input and <= 2 outputs, callers may choose the name `n0` | `TypeOK`, `LinksMirrored`, `VerifyIsExact`, `ClashIsExplicit`, `ProducerIsFinal` |
| graph_two | 2 builders, 1 name, 1 node each, one kind of mark | `VerifyIsExact`, `DamageIsFinal` |
| importer | 1 node with every list of <= 2 initializers, inputs and outputs; <= 2 nodes with 7 lists of inputs and 6 of outputs; two nodes with <= 3 attributes each of kinds read or not | `ImplementsContract`, `AnswersAtLast`, `VerifyNeverThrows`, `DataMatchesType` |
| mlir_gen | a node of every kind, every rank 0..4, short and long lists of slots, initializers that cannot be emitted; every pair of elementwise nodes in every order; chains of any two kinds, the result in between under a new name, the input's or the initializer's | `OperandsAreLatest`, `OperandsAreProducers`, `EmitsExactlySorted`, `WellFormedCompiles`, `Terminates` |
| mlir_gen_rank | the same | `ReturnsRankTwo` is refuted |
| llvm_emitter | 2 compilers, 6 commands, each run twice, killed anywhere, an empty directory or one with a file in every place | `SuccessIsArtifact`, `NoObjectLeft` |
| shape_rules | chains of <= 3 nodes of 11 kinds on 13 inputs of rank 0..4, 6 of them with an unknown size; `Limit` = 2^11 | `CompiledSizesAreOnnx`, `StaticIsChecked`, `SupportedCompiles` |
| shape_supported | the same | `SupportedOpsCompile` is refuted |
| dot_export | 1 builder, 2 names, <= 2 nodes, every marking of values, names whose ids merge | `NoDanglingEdge`, `EdgesAreLinks`, `RowsAreOwn` |
| jit_run | 17 functions, 2880 command lines, 6 bits | `AgreeingRunIsRight`, `NoElementMadeUp` |
| jit_rank | the same | `RunsTheModel` is refuted |
| driver | 2 runs of 77 command lines on 5 models, killed anywhere, both builds; beside two of the command lines a second process, 2 runs of a library or a dot file at `b.so` | `ExitZeroServes`, `StaticModelIsLowered`, `BadModelTouchesNothing`, `ConflictTouchesNothing` |

Why the bounds are enough. *graph_one*: three nodes give a success, a failure and a call
after the failure; two outputs give a first linked and a second refused one, and a repeated
one. *graph_two*: a pointer crosses between two; the theorems cover all other sizes.
*importer*: gaps, repeated names, a name in two roles and a name defined twice all need two
entries. *mlir_gen*: a wrong order, a cycle, shadowing, a second output
and an operand whose rank an earlier node has changed need two nodes.
*llvm_emitter*: the second run meets what the first has left, and two compilers meet on
`a.so`, on its temporary, or nowhere. *shape_rules*: three nodes put a computed size
into a second node and its result into a third; strides of 1 to 3, kernels larger than the
padded image and pads on one side only meet every case of the division, a target of rank 5 gives the
operators on images a rank they are not written for, and sizes stay below 2^11 unless `Dynamic` is in them. *dot_export*: a producer and a consumer are two nodes. *jit_run*: every
rank from 0 to 5, no argument and two, no result and two, `Limit` = 32 (6 bits) overflows at 3x3x3x3. *driver*:
the second run meets the files of the first. The second process starts only while the first emits a
library or an object of one model (the CONSTRAINT `Beside`): two libraries are linked at once, each
beside its own temporary, and a dot file comes in between. Common paths are `llvm_emitter`'s.
Builders, names and compilers are interchangeable where SYMMETRY says so.

Deadlock is checked where the system must always have a step. A compiler that has used its
bound on runs has none, so `llvm_emitter` and `driver` do not check it; a chain of nodes may be at its bound,
so `shape_rules` does not.

**Fairness.** `import_onnx` and `graph_to_mlir` are straight code in one thread, so
weak fairness of their next step is what running them means; `AnswersAtLast` and
`Terminates` need it. The others assume none: callers need not call, processes may be
killed, and what is claimed of the rest is safety.

**The refuted claims.**
* `ReturnsRankTwo`: `mlir_gen.cpp:152-153` says that outputs are normalised to rank 2 "so run_jit
  always receives a StridedMemRefType<float,2> descriptor". Only ranks above 2 are collapsed. A
  graph whose output is a scalar or a vector (an `Add` of two vectors, say) yields a function
  whose result descriptor is smaller than the one `run_jit` hands it.
* `SupportedOpsCompile`: the README (lines 13-14) lists operators as supported without saying
  which forms. Add and Mul that broadcast are refused by MLIR's verifier, and Reshape takes 0 and
  -1 for sizes. `SupportedCompiles` holds of the forms that the emitters are written for.
* `RunsTheModel`: `--run` is said to run "the model". With an input of rank 2, the strides the
  function reads are words 6 and 7 of the rank-4 descriptor, which are the sizes H and W. With
  both at their default 1, a 2x3 input is read as elements 0, 1, 2, 1, 2, 3, and the run returns
  0. Rank 3 is as wrong, rank 1 right only with one channel. No exit code or message shows it.

### What the properties are about
* `VerifyIsExact`: both directions matter. That a harmed builder is refused is the point of
  `verify`; that an unharmed one is accepted makes it usable at the end of the import. The one
  surprise it records: an `add_node` that throws over an output repeated in its own list
  leaves a graph `verify` accepts, since the first occurrence was linked.
* `DamageIsFinal`: no later call can make such a graph pass.
* `ClashIsExplicit`: node names may clash only with names that callers chose. They do clash
  then: `verify` does not look at node names.
* `OperandsAreLatest` holds for every graph that `import_onnx` can return, shadowing included;
  `OperandsAreProducers` says the same of the graph's own `producer` links where no node
  redefines an input or an initializer.
* `EmitsExactlySorted`: code generation relies on ONNX's order, and this relates the two:
  success implies sorted, and a failure of a graph with nothing else wrong implies unsorted.
* `WellFormedCompiles`: the emitters look at the rank of whatever the name is bound to when they are
  reached. A node whose result had the wrong rank, or a name bound too early or too late, shows
  only in a later emitter, as a refusal or as a read behind the shape (Flatten does not check its
  axis, nor `emit_initializers` the bytes). The property says that for graphs that follow ONNX's
  ranks, redefined names included, neither can happen; what becomes of others is modelled and not
  judged. A Reshape whose shape a node has redefined is among the others: the code reads the
  earlier bytes, and nothing says which of the two is meant.
* `CompiledSizesAreOnnx` is about whatever compiles, unknown sizes included; `StaticIsChecked`
  says that with known sizes nothing wrong is left to run time, although the emitters compare no
  sizes: MLIR's verifier catches it. With unknown sizes it does not: GlobalAveragePool of an
  image with unknown H divides by a product that has the unknown size in it, which
  such a chain's outcome `"wrong"` records. Empty tensors are outside of both, since MLIR passes
  over them. Gemm with beta = 0 drops its bias unseen, whatever its shape.
* `AgreeingRunIsRight` asks that the options agree with a model of rank 4; two negative options
  or a file that is too long are accepted without a word and nothing is claimed of the former.
* `ConflictTouchesNothing`: the check of `--emit-*` comes after `--dot`, `--emit-mlir` and
  `--run`, which win silently; still no artifact appears that a refused combination asked for.
* `BadModelTouchesNothing`: opening a file empties it, so the order of `main` and `emit_output`
  matters. Failures after the opening do empty the earlier file; nothing promises otherwise.
* `StaticModelIsLowered`: `lower-affine` runs before `expand-strided-metadata`, which may create
  affine operations again. Where they fold away nothing is left of them; where one does not, the
  translation to LLVM IR refuses it.
* `EdgesAreLinks`, `RowsAreOwn` relate the picture to links that the exporter reads only in part
  (flags, one producer) and to lists it does not compare. The first compares edge by edge, with the
  node and the value each is written for; that names with one id share a vertex on the screen is
  outside of it. The second leaves out nodes that share their name, whose rows the exporter puts
  into both vertices.
* `ExitZeroServes` is about compilers that share no path: a temporary that is named after the
  output keeps two libraries in one directory apart, and one fixed name would not.
* `SuccessIsArtifact`, `NoObjectLeft`: for runs whose output and temporary no other run uses.
  Two runs on the same output may mix their bytes; nothing in the code prevents it.

## 4. Proofs

Every theorem holds for all values of the constants that satisfy the named ASSUMEs of its
module, which TLC evaluates on the instances above.

| theorem (module ...Proofs) | property |
|---|---|
| TensorGraph: `TypeCorrect` | `TypeOK` |
| `LinksAlwaysMirrored` | `LinksMirrored` |
| `ProducerNeverChanges` | `ProducerIsFinal` |
| `Inductive` | the invariant `IInv` below |
| `VerifyExact` | `VerifyIsExact` |
| `DamageNeverRepaired` | `DamageIsFinal` |
| `ClashesAreExplicit` | `ClashIsExplicit` |
| Importer: `VerifyAlwaysAccepts` | `VerifyNeverThrows` |
| `DataAlwaysMatchesType` | `DataMatchesType` |
| `ImportImplements` | `ImplementsContract` |
| MlirGen: `OperandsAlwaysLatest` | `OperandsAreLatest` |
| `OperandsAlwaysProducers` | `OperandsAreProducers` |
| `EmitsAlwaysSorted` | `EmitsExactlySorted` |
| `WellFormedAlwaysCompiles` | `WellFormedCompiles` |
| ShapeRules: `CompiledSizesAlwaysOnnx` | `CompiledSizesAreOnnx` |
| `StaticAlwaysChecked` | `StaticIsChecked` |
| `SupportedAlwaysCompiles` | `SupportedCompiles` |
| DotExport: `EdgesNeverDangle` | `NoDanglingEdge` |
| `EdgesAlwaysLinks` | `EdgesAreLinks` |
| `RowsAlwaysOwn` | `RowsAreOwn` |
| JitRun: `AgreeingRunAlwaysRight` | `AgreeingRunIsRight` |
| `NoElementEverMadeUp` | `NoElementMadeUp` |
| LlvmEmitter: `EmitterInvariant` | the invariant `EmitterInv` below |
| `SuccessAlwaysArtifact` | `SuccessIsArtifact` |
| `ObjectNeverLeft` | `NoObjectLeft` |
| Driver: `DriverDecides` | the invariant `DriverBase` below |
| `BadModelNeverTouches` | `BadModelTouchesNothing` |
| `ConflictNeverTouches` | `ConflictTouchesNothing` |
| `StaticAlwaysLowered` | `StaticModelIsLowered` |
| `ExitZeroAlwaysServes` | `ExitZeroServes` |

### The assumptions
* TensorGraph: null is no value and no node; names and bounds have their types.
* Importer: the builder exists, the three roles are among `Roles`, and a file is what protobuf
  hands over, finite lists of messages with the fields of `onnx.proto3` (`FilesAssumption`).
* MlirGen: a graph is one that `import_onnx` returns (`GraphAssumption`, which Importer's
  properties are about), with finite lists and ranks in Nat (`RankAssumption` for `Ranks`, among
  which `WellFormed` looks for the ranks of results; the theorem holds for any such set).
* ShapeRules: `Limit` is more than 1; an input's shape agrees with its type (`StartAssumption`);
  initializers have elements, as one without any has no bytes and is refused before the nodes
  (`WeightAssumption`); kernels, strides and dilations are positive and pads not negative, which ONNX
  demands and the code does not look at (`AttributeAssumption`). Ranks, sizes, axes and the length
  of a chain are free.
* JitRun: options are integers, types are lists of sizes, no result has more than two (what
  `emit_func` collapses to), and int64_t holds some positive number.
* LlvmEmitter: names of paths and of temporaries differ, kinds are those of `OutputKind`.
* Driver: a model that can be emitted has a function and holds the dialects that
  `graph_to_mlir` uses, and nothing else; a command line names paths and kinds.

### The arguments
**TensorGraph.** `TypeOK` and `LinksMirrored` are inductive together. `VerifyIsExact` is not: it
says nothing of what makes a builder damaged, and a step cannot be shown to keep `verify`
true or false. `IInv` spells damage out: the arguments of every node exist (`ArgumentsStep`),
every listed value is flagged and listed once (`ListsStep`), and a builder is damaged iff it
has a sick node (an output without its link, or a foreign argument), a sick value (a link
to a node of another builder) or a sick list (a foreign value). The lemmas `SickNodeStep`,
`SickValueStep` and `SickListStep` say how each action changes these three, `DamageStep` that
the history variable follows, and `VerifySeesSickness` that `verify` fails iff one of them is
there. `AddNodeEffect` is the one lemma that opens `add_node`. `ClashesAreExplicit` needs
that made-up names stay below the counter and apart from each other (`NamesStep`).

**Importer.** `VerifyNeverThrows` is about the last state; inductive is `AlwaysSound`: `verify`
would accept the graph after every entry of the file, and a value that does not exist has no
links (without which a new one might bring a link along). `SoundMark` and `SoundNode` are the
two kinds of steps. For `DataMatchesType`, `DataSettled` adds that the shape and type of a value
with data stay what they are once `init_names` holds the name. That the values looked up for a
node form a list needs a least element of a set of numbers (`Least`), which the library's
well-founded orderings give without its induction theorems.

**ImportContract.** `ImportImplements`, in ImporterProofs: the refinement, with the mapping that Importer states. `ReadSoFar` says what the
builder holds when the first entries of each list have been read: that part of `Translation`,
conjunct by conjunct (names, values, lists, nodes, attributes, tensors), and, once the import has
failed, that the file could not be imported. `StepReads` says how much of which list a step reads;
each conjunct then has its own lemma (`...ReadStep`). The lists rest on `NthGrows`: a position
behind all others becomes the last of them. `ThrowsIsRepeated` says that `add_node` throws iff an
output repeats a name; it needs `AlwaysSound`, by which a value has a producer iff a node read so
far defines it (`ProducersRead`). At `verify` everything is read, and `GraphIsTranslation` gives
the answer; every other step is a stutter or a failure (`FailsRightly`).

**MlirGen.** `MlirInv`: `value_map_` gives each name the value it means at the node reached
(`MapMeans`), every operation emitted so far took what its operands meant at its place
(`BodyMeans`), the outputs collected mean what they do at the end (`ReturnedMeans`), and a
refused graph that is otherwise plain has an operand that nothing before it defines
(`PlainFails`). `RankMeans` says of every typing, that is of all ranks of the results that agree with
ONNX throughout, that each binding has the rank which the typing gives its name at the node reached
(`RankStep`, `FitsTyping`): the typing is chosen once for the graph, and the bindings follow it
through every node. A well-formed graph has one, hence goes on (`WellFormedGoesOn`). Meaning is by position, so an emitted operation is not affected by a name that is
bound again later.

**ShapeRules.** `SizesInv` ties the three properties to the tensor that is passed on: as long as a
chain is compiled its tensor is one (no size is 0, and a size in the type is the actual one), has
ONNX's shape, and has a static type if all sizes were known. None of this is in the properties, and
without it nothing follows for the next node. Each emitter has a lemma that it keeps this
(`Keeps`, `ConvKeeps`, `GemmKeeps` and so on), whatever it is handed; `EmitKeeps` turns such a lemma
into a step, and `SizesStep` goes through the actions. Below the emitters there is a layer for what
linalg checks: where one operand has all the loops as its indices, in order, their ranges are its
sizes and the other operands have to agree with it (`PlainRanges`, `PlainOperation`); convolution and
pooling have sliding indices, and a layer of their own (`ConvolutionFacts`, `PoolingFacts`), in which
MLIR's check of the last index says exactly that the last window stays inside. `FittingIs` relates the
counted windows to the division: the count is `last \div stride + 1` where any fits, by the bijection
of windows and multiples; `OutSizeFacts` adds what truncation toward zero does where none fits.
A product of sizes is a function of the number of factors; what holds of it for every rank
(`ProductAgrees`, `ProductSplit`) is shown by its first wrong value (`FirstWrong`), which has a right
one before it, so that no induction theorem is needed. Empty tensors are left out by the
properties because MLIR passes over a dimension 0 and the argument would stop there.

**DotExport.** TensorGraph's invariant does not relate flags to lists of builders that `verify`
rejects; `FlagsListed` says that every flag comes with an entry in some list. With it, and what
`verify` has checked, each branch of `emit_edges` falls on one of the three kinds of links.

**JitRun.** `JitInv` ties the buffer to the options and the file and an outcome to what the call
found. The rest is arithmetic: products that do not overflow do not wrap (`Strided`), the strides
of the descriptor and the order of a file give an element the same position
(`PositionByStrides`, `PositionInFile`), and positions stay inside the buffer (`Nested`, once for
each dimension).

**LlvmEmitter.** `EmitterInv` is `Base` (a file is under one path only, the file a run may make is
not in use, no file names a run that has not begun) and, for a process that shares no path with
another, `Apart` (the files under its paths are out of reach of the others' streams) and `Phase`
(what is under its paths at each step, from `translate` to `clean`). A kill leaves what is there;
`Apart` survives it, and the next run begins again from any content.

**Driver.** `DriverBase` adds to `Base` what a run has decided by the time it is at each place of
`main`: the mode, that the model was importable, emittable and lowered, that one kind was asked
for. The action properties follow step by step from it, for any number of processes.
`Serving`, for `ExitZeroServes`, is for a process that is `OnItsOwn` and carries where the bytes of
its present run are at each place. Two compilers on one path may mix their bytes, so nothing of the
kind holds of the others. `Phase` of LlvmEmitter tells what is under the paths of one command, but
a process changes its command with every run, and another may have a file open that an earlier run
of its own has opened; hence `Away` for all of `PathsOf`: no other has one of these files open, and
bytes of the run are under no other path and in no other linker. `Territory` says that a run
stays within `PathsOf`, `OthersLeave` that whatever another process does, `main` and `emit_output`
alike, leaves the files under `PathsOf` as they are (`Kept`), which takes `Phase` along (`KeptPhase`).
`StaticAlwaysLowered` follows a module through the stages:
after `Looped` nothing of affine is left, and constants fold the views away.

### What is only model-checked
* `AnswersAtLast` and `Terminates`: they need fairness, which the prover does not do.
* The three refuted claims.

## 5. Not modelled, and the plan

Every part of the program has a module. Left out of them:

* the insides of MLIR, LLVM, protobuf and `clang`: what the code relies on is in definitions
  marked external, among them the verifier of linalg operations, the effects of passes and the
  layout of memref descriptors;
* what the emitted operations compute with the elements (alpha, beta and epsilon as numbers),
  labels, colours, the wording of messages, the numbers printed as statistics;
* attributes the code never reads (`ceil_mode`, `auto_pad`, `group`), and an attribute of another
  type than the one asked for, which `attr_as` treats as absent; `--bare-ptr`, which changes a
  calling convention; the data layout, the index width and aligned allocation, which the driver
  never sets;
* writes that the disk refuses. The code looks at none of them, after `dump_dot` or elsewhere;
* `tests/`, the build and the schema in `proto/`, which are not part of the program.

What could come next is inside the emitters: the elements that the emitted operations compute, for
which the bodies of the linalg operations would have to be modelled beside their sizes.
