------------------------------ MODULE MlirGen ------------------------------
(***************************************************************************)
(* graph_to_mlir (src/codegen/mlir_gen.cpp): the function @main is emitted *)
(* for an imported graph.  value_map_ says which SSA value stands for a    *)
(* name at the moment; nodes are emitted in the order of nodes().          *)
(*                                                                         *)
(* A type is its rank; the arithmetic on dimensions is in ShapeRules.  An  *)
(* emitter that indexes a dimension its operand does not have, or hands    *)
(* MLIR a buffer that does not fit its type, has undefined behaviour: the  *)
(* run ends in "undefined" and nothing is claimed of it.  Elements are     *)
(* floats, and lists of attributes have the lengths ONNX gives them.       *)
(*                                                                         *)
(* A definition called ..._bug is a slip one could make in the definition  *)
(* it precedes; it is used nowhere and serves to see a property fail.      *)
(***************************************************************************)
EXTENDS SequencesExt, Integers

CONSTANTS
    Names,       \* value names
    Graphs,      \* the graphs import_onnx may return
    Ranks,       \* the numbers of dimensions a result may have
    Unbound      \* no SSA value

(***************************************************************************)
(* A graph has inputs, initializers, outputs: lists of names; tensor: for  *)
(* each name whether its element type is supported, its rank, the number   *)
(* of bytes of its data and whether they fit the type; and nodes: lists of *)
(* [op, inputs, outputs, trans, axis], trans and axis being attributes.    *)
(***************************************************************************)
Distinct(s) == \A i, j \in DOMAIN s : s[i] = s[j] => i = j

\* What ImportContract promises of a graph.
Imported(g) ==
    /\ Distinct(g.inputs) /\ Distinct(g.initializers) /\ Distinct(g.outputs)
    /\ ToSet(g.inputs) \cap ToSet(g.initializers) = {}
    /\ \A name \in DOMAIN g.tensor : g.tensor[name].bytes > 0 => name \in ToSet(g.initializers)
    /\ \A m, n \in DOMAIN g.nodes : \A i \in DOMAIN g.nodes[m].outputs, j \in DOMAIN g.nodes[n].outputs :
            g.nodes[m].outputs[i] = g.nodes[n].outputs[j] => m = n /\ i = j

ASSUME RankAssumption == Ranks \subseteq Nat

ASSUME GraphAssumption == \A g \in Graphs : Imported(g)

\* What a GraphBuilder can hold: finite lists, and vectors of a length in Nat.
Tensors == [typed : BOOLEAN, rank : Nat, bytes : Nat, fits : BOOLEAN]
Nodes   == [op : STRING, inputs : Seq(Names), outputs : Seq(Names), trans : SUBSET {"A", "B"}, axis : Int]
ASSUME TypeAssumption == \A g \in Graphs :
    /\ g.inputs \in Seq(Names) /\ g.initializers \in Seq(Names) /\ g.outputs \in Seq(Names)
    /\ g.tensor \in [Names -> Tensors] /\ g.nodes \in Seq(Nodes)

\* SSA values: an argument, a constant, the result of a node, by position.
Ssa     == {"arg", "const", "result"} \X Nat
Binding == [ssa : Ssa, rank : Nat]
ASSUME UnboundAssumption == Unbound \notin Ssa /\ Unbound \notin Binding

VARIABLES
    graph,       \* builder_
    pc,          \* "arguments", "initializers", "nodes", "outputs", "done", ...
    next,        \* index of the loop that runs
    value_map_,  \* value_map_[name]: [ssa, rank], or Unbound
    body,        \* for each node emitted, the SSA values that its ops take
    returned     \* the operands of func.return: [ssa, rank]

vars == <<graph, pc, next, value_map_, body, returned>>

-----------------------------------------------------------------------------
(* What the emitters read and require *)

Unary  == {"Relu", "MaxPool", "GlobalAveragePool", "Softmax", "Flatten"}
Binary == {"Add", "Mul", "MatMul", "Gemm", "Conv", "Reshape"}
Supported == Unary \cup Binary \cup {"BatchNormalization"}

\* The inputs a node of this kind must have, and the ones looked up at once.
Arity(op) == IF op \in Unary THEN 1 ELSE IF op \in Binary THEN 2 ELSE 5
Looked(op) == IF op = "Reshape" THEN 1 ELSE Arity(op)

\* Gemm and Conv look up a third input if there is one, later; the import has left
\* no empty name in the inputs.
HasBias(node) == node.op \in {"Gemm", "Conv"} /\ Len(node.inputs) >= 3
Operands(node) == SubSeq(node.inputs, 1, IF HasBias(node) THEN 3 ELSE Looked(node.op))

Bound(name) == value_map_[name] # Unbound
Rank(name)  == value_map_[name].rank
X(node) == node.inputs[1]
W(node) == node.inputs[2]
Axis(node) == IF node.axis < 0 THEN node.axis + Rank(X(node)) ELSE node.axis

\* The kind is known, there are enough slots and the main operands are bound.
Ready(node) ==
    /\ node.op \in Supported
    /\ Len(node.inputs) >= Arity(node.op) /\ Len(node.outputs) >= 1
    /\ \A i \in 1 .. Looked(node.op) : Bound(node.inputs[i])

\* The emitter indexes a dimension that is not there.
IndexesTooFar(node) ==
    CASE node.op = "MatMul" -> Rank(X(node)) < 1 \/ Rank(W(node)) < 2
      [] node.op = "Gemm"   -> \/ Rank(X(node)) < (IF "A" \in node.trans THEN 2 ELSE 1)
                               \/ Rank(W(node)) < (IF "B" \in node.trans THEN 1 ELSE 2)
      [] node.op = "Conv"   -> Rank(X(node)) < 4 \/ Rank(W(node)) < 4
      [] node.op \in {"MaxPool", "GlobalAveragePool", "BatchNormalization"} -> Rank(X(node)) < 4
      [] node.op = "Flatten" -> Axis(node) \notin 0 .. Rank(X(node))
      [] OTHER -> FALSE

\* Checks and lookups that come after the first use of the operands.  Reshape reads
\* the data of its second input from the graph, not through value_map_, and asks for
\* its length only: the element type (int64, says the comment) is not looked at.
RefusedLate(node) ==
    \/ node.op = "Gemm" /\ node.trans = {"A", "B"}
    \/ HasBias(node) /\ ~Bound(node.inputs[3])
    \/ node.op = "Softmax" /\ Axis(node) \notin 0 .. Rank(X(node)) - 1
    \/ node.op = "Reshape" /\ LET bytes == graph.tensor[W(node)].bytes
                              IN  bytes = 0 \/ bytes % 8 # 0

\* The result of Reshape takes over the type of its operand.
ResultRank_bug(node) ==
    CASE node.op \in {"Add", "Mul", "Relu", "Softmax", "Reshape"} -> Rank(X(node))
      [] node.op \in {"MatMul", "Gemm", "Flatten"} -> 2
      [] OTHER -> 4

ResultRank(node) ==
    CASE node.op \in {"Add", "Mul", "Relu", "Softmax"} -> Rank(X(node))
      [] node.op \in {"MatMul", "Gemm", "Flatten"} -> 2
      [] node.op = "Reshape" -> graph.tensor[W(node)].bytes \div 8
      [] OTHER -> 4

-----------------------------------------------------------------------------
Init == /\ graph \in Graphs
        /\ pc = "arguments" /\ next = 1
        /\ value_map_ = [name \in Names |-> Unbound]
        /\ body = << >> /\ returned = << >>

Stop(outcome) == pc' = outcome /\ next' = 1
Continue      == pc' = pc /\ next' = next + 1
Bind_bug(name, ssa, rank) ==    \* emplace instead of operator[]
    value_map_' = IF Bound(name) THEN value_map_
                  ELSE [value_map_ EXCEPT ![name] = [ssa |-> ssa, rank |-> rank]]
Bind(name, ssa, rank) == value_map_' = [value_map_ EXCEPT ![name] = [ssa |-> ssa, rank |-> rank]]

Iterating(phase, list) == pc = phase /\ next \in DOMAIN list

\* value_to_tensor_type throws for an element type it does not know, and the type of
\* every argument is made before the first one is bound.
BindArgument ==
    /\ Iterating("arguments", graph.inputs)
    /\ LET name == graph.inputs[next] IN
       IF \E other \in ToSet(graph.inputs) : ~graph.tensor[other].typed
       THEN Stop("failed") /\ UNCHANGED value_map_
       ELSE Continue /\ Bind(name, <<"arg", next>>, graph.tensor[name].rank)
    /\ UNCHANGED <<graph, body, returned>>

EmitInitializer ==
    /\ Iterating("initializers", graph.initializers)
    /\ LET name == graph.initializers[next]
           t    == graph.tensor[name]
       IN  CASE Bound(name) -> Continue /\ UNCHANGED value_map_
             [] ~Bound(name) /\ (~t.typed \/ t.bytes = 0) -> Stop("failed") /\ UNCHANGED value_map_
             [] ~Bound(name) /\ t.typed /\ t.bytes > 0 /\ ~t.fits ->
                    Stop("undefined") /\ UNCHANGED value_map_
             [] OTHER -> Continue /\ Bind(name, <<"const", next>>, t.rank)
    /\ UNCHANGED <<graph, body, returned>>

\* The last output of the node is bound instead of the first.
EmitNode_bug ==
    /\ Iterating("nodes", graph.nodes)
    /\ LET node == graph.nodes[next] IN
       /\ Ready(node) /\ ~IndexesTooFar(node) /\ ~RefusedLate(node)
       /\ body' = Append(body, [i \in DOMAIN Operands(node) |-> value_map_[Operands(node)[i]].ssa])
       /\ Bind(node.outputs[Len(node.outputs)], <<"result", next>>, ResultRank(node))
    /\ Continue
    /\ UNCHANGED <<graph, returned>>

\* Only the first output of a node is bound, over whatever its name meant before.
EmitNode ==
    /\ Iterating("nodes", graph.nodes)
    /\ LET node == graph.nodes[next] IN
       /\ Ready(node) /\ ~IndexesTooFar(node) /\ ~RefusedLate(node)
       /\ body' = Append(body, [i \in DOMAIN Operands(node) |-> value_map_[Operands(node)[i]].ssa])
       /\ Bind(node.outputs[1], <<"result", next>>, ResultRank(node))
    /\ Continue
    /\ UNCHANGED <<graph, returned>>

\* The node is tried again until its operands are there.
RefuseNode_bug ==
    /\ Iterating("nodes", graph.nodes)
    /\ ~Ready(graph.nodes[next])
    /\ UNCHANGED vars

\* Either way the function emitted so far is dropped with the exception.
RefuseNode ==
    /\ Iterating("nodes", graph.nodes)
    /\ ~Ready(graph.nodes[next])
    /\ Stop("failed")
    /\ UNCHANGED <<graph, value_map_, body, returned>>

RefuseNodeLate ==
    /\ Iterating("nodes", graph.nodes)
    /\ LET node == graph.nodes[next] IN Ready(node) /\ ~IndexesTooFar(node) /\ RefusedLate(node)
    /\ Stop("failed")
    /\ UNCHANGED <<graph, value_map_, body, returned>>

LoseNode ==
    /\ Iterating("nodes", graph.nodes)
    /\ LET node == graph.nodes[next] IN Ready(node) /\ IndexesTooFar(node)
    /\ Stop("undefined")
    /\ UNCHANGED <<graph, value_map_, body, returned>>

\* An output that is not there is passed over.
CollectOutput_bug ==
    /\ Iterating("outputs", graph.outputs)
    /\ Continue
    /\ LET name == graph.outputs[next] IN
       returned' = IF Bound(name)
                   THEN Append(returned, [value_map_[name] EXCEPT !.rank = IF @ > 2 THEN 2 ELSE @])
                   ELSE returned
    /\ UNCHANGED <<graph, value_map_, body>>

\* An output of rank above 2 is collapsed to [first dimension, all the others].
CollectOutput ==
    /\ Iterating("outputs", graph.outputs)
    /\ LET name == graph.outputs[next] IN
       IF ~Bound(name)
       THEN Stop("failed") /\ UNCHANGED returned
       ELSE /\ Continue
            /\ returned' = Append(returned,
                   [value_map_[name] EXCEPT !.rank = IF @ > 2 THEN 2 ELSE @])
    /\ UNCHANGED <<graph, value_map_, body>>

EndOfLoop ==
    /\ \/ pc = "arguments"    /\ next > Len(graph.inputs)       /\ Stop("initializers")
       \/ pc = "initializers" /\ next > Len(graph.initializers) /\ Stop("nodes")
       \/ pc = "nodes"        /\ next > Len(graph.nodes)        /\ Stop("outputs")
       \/ pc = "outputs"      /\ next > Len(graph.outputs)      /\ Stop("done")
    /\ UNCHANGED <<graph, value_map_, body, returned>>

Ended == pc \in {"done", "failed", "undefined"}

Step == BindArgument \/ EmitInitializer \/ EmitNode \/ RefuseNode
            \/ RefuseNodeLate \/ LoseNode \/ CollectOutput \/ EndOfLoop
Next == Step \/ (Ended /\ UNCHANGED vars)
Spec == Init /\ [][Next]_vars /\ WF_vars(Step)

-----------------------------------------------------------------------------
(* Properties *)

Position(list, name) == CHOOSE i \in DOMAIN list : list[i] = name

\* Where a name that no node defines comes from.
Declaration(g, name) ==
    IF name \in ToSet(g.inputs) THEN <<"arg", Position(g.inputs, name)>>
    ELSE IF name \in ToSet(g.initializers) THEN <<"const", Position(g.initializers, name)>>
    ELSE Unbound

Defines(node, name) == node.outputs # << >> /\ node.outputs[1] = name

\* What a name means to node n: the result of the nearest node before it that has the
\* name as its first output, else the declaration.
MeaningAt(g, n, name) ==
    LET before == {m \in 1 .. n - 1 : Defines(g.nodes[m], name)}
    IN  IF before = {} THEN Declaration(g, name) ELSE <<"result", Max(before)>>

\* What a name means in the graph, the order of the nodes left aside.
Meaning(g, name) ==
    IF \E n \in DOMAIN g.nodes : Defines(g.nodes[n], name)
    THEN <<"result", CHOOSE n \in DOMAIN g.nodes : Defines(g.nodes[n], name)>>
    ELSE Declaration(g, name)

\* ONNX's single assignment: no node redefines an input or an initializer.  Neither
\* the import nor verify() asks for it.
NoShadowing(g) == \A n \in DOMAIN g.nodes :
    ToSet(g.nodes[n].outputs) \cap (ToSet(g.inputs) \cup ToSet(g.initializers)) = {}

\* Every operand means something where it is used, and every output at the end.
Sorted(g) ==
    /\ \A n \in DOMAIN g.nodes : \A name \in ToSet(Operands(g.nodes[n])) :
            MeaningAt(g, n, name) # Unbound
    /\ \A name \in ToSet(g.outputs) : MeaningAt(g, Len(g.nodes) + 1, name) # Unbound

\* Nothing but the order of the nodes can be wrong with such a graph.
Plain(g) ==
    /\ \A n \in DOMAIN g.nodes : LET node == g.nodes[n] IN
            /\ node.op \in {"Add", "Mul", "Relu"}
            /\ Len(node.inputs) >= Arity(node.op) /\ Len(node.outputs) >= 1
    /\ \A name \in ToSet(g.inputs) \cup ToSet(g.initializers) : g.tensor[name].typed
    /\ \A name \in ToSet(g.initializers) : g.tensor[name].bytes > 0 /\ g.tensor[name].fits

\* How many dimensions a name has for node n when the results have these ranks.
RankAt(g, results, n, name) ==
    LET meaning == MeaningAt(g, n, name)
    IN  IF meaning = Declaration(g, name) THEN g.tensor[name].rank ELSE results[meaning[2]]

\* What ONNX asks of the ranks around an operator, for the forms that this compiler
\* supports: no broadcasting, two spatial dimensions, a bias of rank 1, not both
\* operands of Gemm transposed, the shape of Reshape an initializer of whole words.
FollowsOnnx(g, results, n) ==
    LET node         == g.nodes[n]
        rank(i)      == RankAt(g, results, n, node.inputs[i])
        ranks(is, r) == \A i \in is : rank(i) = r
    IN  /\ node.op \in {"Add", "Mul"} => ranks({1, 2}, results[n])
        /\ node.op \in {"Relu", "Softmax"} => rank(1) = results[n]
        /\ node.op = "Softmax" => node.axis \in -rank(1) .. rank(1) - 1
        /\ node.op = "Flatten" => node.axis \in -rank(1) .. rank(1) /\ results[n] = 2
        /\ node.op \in {"MatMul", "Gemm"} => ranks({1, 2}, 2) /\ results[n] = 2
        /\ node.op = "Gemm" => node.trans # {"A", "B"}
        /\ node.op = "Conv" => ranks({1, 2}, 4)
        /\ HasBias(node) => rank(3) = 1
        /\ node.op = "BatchNormalization" => ranks(2 .. 5, 1)
        /\ node.op \in {"MaxPool", "GlobalAveragePool", "BatchNormalization"} => rank(1) = 4
        /\ node.op \in {"Conv", "MaxPool", "GlobalAveragePool", "BatchNormalization"} => results[n] = 4
        /\ node.op = "Reshape" =>
                LET shape == W(node) IN
                /\ shape \in ToSet(g.initializers) /\ MeaningAt(g, n, shape) = Declaration(g, shape)
                /\ g.tensor[shape].bytes % 8 = 0 /\ results[n] = g.tensor[shape].bytes \div 8

\* A graph of supported operators in topological order, with tensors that have
\* data, for which some ranks of the results agree with ONNX everywhere.
WellFormed(g) ==
    /\ \A name \in ToSet(g.inputs) \cup ToSet(g.initializers) : g.tensor[name].typed
    /\ \A name \in ToSet(g.initializers) : g.tensor[name].bytes > 0 /\ g.tensor[name].fits
    /\ \A n \in DOMAIN g.nodes : LET node == g.nodes[n] IN
            node.op \in Supported /\ Len(node.inputs) >= Arity(node.op) /\ Len(node.outputs) >= 1
    /\ Sorted(g)
    /\ \E results \in [DOMAIN g.nodes -> Ranks] : \A n \in DOMAIN g.nodes : FollowsOnnx(g, results, n)

\* An op takes the values that its names mean at that place, also when nodes redefine
\* inputs or initializers, and the function returns what the outputs mean at its end.
OperandsAreLatest ==
    /\ \A n \in DOMAIN body : LET names == Operands(graph.nodes[n]) IN
            body[n] = [i \in DOMAIN names |-> MeaningAt(graph, n, names[i])]
    /\ \A k \in DOMAIN returned :
            returned[k].ssa = MeaningAt(graph, Len(graph.nodes) + 1, graph.outputs[k])

\* In a graph without shadowing an op takes the result of the node that the graph
\* records as the producer of the name (Value::producer), wherever that node stands.
OperandsAreProducers ==
    NoShadowing(graph) =>
        /\ \A n \in DOMAIN body : LET names == Operands(graph.nodes[n]) IN
                body[n] = [i \in DOMAIN names |-> Meaning(graph, names[i])]
        /\ \A k \in DOMAIN returned : returned[k].ssa = Meaning(graph, graph.outputs[k])

\* A module comes out only of a graph whose nodes are in topological order ("ONNX spec
\* guarantees it", mlir_gen.cpp:134), and out of every such graph that is plain.
EmitsExactlySorted ==
    /\ pc = "done" => Sorted(graph)
    /\ pc = "failed" /\ Plain(graph) => ~Sorted(graph)

\* No emitter refuses a well-formed graph or reads a dimension its operand does not
\* have (mlir_gen.cpp:1100), whatever chain of results the operand went through and
\* however often its name was bound: the rank of the binding that an emitter finds is
\* the rank ONNX gives the name at that node.  With Terminates, a module comes out.
WellFormedCompiles == pc \in {"failed", "undefined"} => ~WellFormed(graph)

\* graph_to_mlir comes to an end for every graph, cyclic ones included.
Terminates == <>Ended

\* "normalise to rank-2 [batch, rest] so run_jit always receives a
\* StridedMemRefType<float,2> descriptor" (mlir_gen.cpp:152-153).
ReturnsRankTwo == pc = "done" => \A k \in DOMAIN returned : returned[k].rank = 2

=============================================================================
