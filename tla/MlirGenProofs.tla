---------------------------- MODULE MlirGenProofs ----------------------------
(***************************************************************************)
(* What holds of graph_to_mlir for every set of graphs that an import can  *)
(* return.                                                                 *)
(***************************************************************************)
EXTENDS MlirGen, SequenceTheorems, TLAPS

-----------------------------------------------------------------------------
(* Graphs *)

LEMMA GraphTypes ==
    ASSUME NEW g \in Graphs
    PROVE  /\ g.inputs \in Seq(Names) /\ g.initializers \in Seq(Names) /\ g.outputs \in Seq(Names)
           /\ g.nodes \in Seq(Nodes)
           /\ Distinct(g.inputs) /\ Distinct(g.initializers)
           /\ ToSet(g.inputs) \cap ToSet(g.initializers) = {}
           /\ \A name \in Names : /\ g.tensor[name].rank \in Nat /\ g.tensor[name].bytes \in Nat
                                  /\ g.tensor[name].bytes > 0 => name \in ToSet(g.initializers)
           /\ \A m, n \in DOMAIN g.nodes : \A name :
                Defines(g.nodes[m], name) /\ Defines(g.nodes[n], name) => m = n
           /\ \A n \in DOMAIN g.nodes : \A name :
                Defines(g.nodes[n], name) => name \in ToSet(g.nodes[n].outputs)
  <1>1. \A t \in Tensors : t.rank \in Nat /\ t.bytes \in Nat
    BY DEF Tensors
  <1>2. g.tensor \in [Names -> Tensors] /\ g.nodes \in Seq(Nodes)
    BY TypeAssumption
  <1>3. \A node \in Nodes : node.outputs \in Seq(Names)
    BY DEF Nodes
  <1>4. \A name \in Names : g.tensor[name].rank \in Nat /\ g.tensor[name].bytes \in Nat
    BY <1>1, <1>2
  <1>5. \A n \in DOMAIN g.nodes : g.nodes[n].outputs # << >> => 1 \in DOMAIN g.nodes[n].outputs
    BY <1>2, <1>3
  <1>6. Imported(g)
    BY GraphAssumption
  <1>7. \A m, n \in DOMAIN g.nodes : \A name :
            Defines(g.nodes[m], name) /\ Defines(g.nodes[n], name) => m = n
    BY <1>5, <1>6 DEF Imported, Defines
  <1>8. \A n \in DOMAIN g.nodes : \A name :
            Defines(g.nodes[n], name) => name \in ToSet(g.nodes[n].outputs)
    BY <1>5 DEF Defines, ToSet
  <1> QED
    BY <1>2, <1>4, <1>6, <1>7, <1>8, TypeAssumption DEF Imported

\* What an emitter reads at once lies within the inputs it has asked for.
LEMMA OperandsOf ==
    ASSUME NEW node \in Nodes, Len(node.inputs) >= Arity(node.op)
    PROVE  LET count == IF HasBias(node) THEN 3 ELSE Looked(node.op)
           IN  /\ count \in 1 .. Len(node.inputs)
               /\ Operands(node) \in Seq(Names) /\ DOMAIN Operands(node) = 1 .. count
               /\ \A i \in 1 .. count : Operands(node)[i] = node.inputs[i] /\ node.inputs[i] \in Names
  <1> DEFINE count == IF HasBias(node) THEN 3 ELSE Looked(node.op)
  <1>1. node.inputs \in Seq(Names)
    BY DEF Nodes
  <1>2. count \in 1 .. Len(node.inputs) /\ count \in Nat
    BY <1>1 DEF HasBias, Looked, Arity, Unary, Binary
  <1>3. Operands(node) = SubSeq(node.inputs, 1, count)
    BY DEF Operands
  <1> HIDE DEF count
  <1>4. \A i \in 1 .. count : node.inputs[i] \in Names
    BY <1>1, <1>2
  <1>5. /\ SubSeq(node.inputs, 1, count) \in Seq(Names)
        /\ Len(SubSeq(node.inputs, 1, count)) = count
        /\ \A i \in 1 .. count : SubSeq(node.inputs, 1, count)[i] = node.inputs[i]
    BY <1>2, <1>4, SubSeqProperties
  <1> QED
    BY <1>2, <1>3, <1>4, <1>5 DEF count

\* In a list without repetitions a name has one position.
LEMMA PositionIs ==
    ASSUME NEW list, Distinct(list), NEW i \in DOMAIN list
    PROVE  Position(list, list[i]) = i
  BY DEF Distinct, Position

-----------------------------------------------------------------------------
(* What names mean *)

\* One node further, the name of its first output means its result.
LEMMA MeaningStep ==
    ASSUME NEW g, NEW n \in Nat \ {0}, NEW name
    PROVE  MeaningAt(g, n + 1, name) = IF Defines(g.nodes[n], name) THEN <<"result", n>>
                                       ELSE MeaningAt(g, n, name)
  <1> DEFINE before(k) == {m \in 1 .. k - 1 : Defines(g.nodes[m], name)}
  <1>1. before(n + 1) = before(n) \cup {m \in {n} : Defines(g.nodes[m], name)}
    OBVIOUS
  <1>2. CASE Defines(g.nodes[n], name)
    <2>1. n \in before(n + 1) /\ \A m \in before(n + 1) : m \in Nat /\ n >= m
      BY <1>2
    <2>2. Max(before(n + 1)) = n
      BY <2>1 DEF Max
    <2> QED
      BY <1>2, <2>1, <2>2 DEF MeaningAt
  <1>3. CASE ~Defines(g.nodes[n], name)
    <2>1. before(n + 1) = before(n)
      BY <1>1, <1>3
    <2> QED
      BY <1>3, <2>1 DEF MeaningAt
  <1> QED
    BY <1>2, <1>3

\* Before the first node, only declarations count.
LEMMA MeaningStart == \A g, name : MeaningAt(g, 1, name) = Declaration(g, name)
  BY DEF MeaningAt

-----------------------------------------------------------------------------
(* Types and loops *)

Phases == {"arguments", "initializers", "nodes", "outputs", "done", "failed", "undefined"}

MlirTypeOK ==
    /\ graph \in Graphs
    /\ pc \in Phases
    /\ next \in Nat \ {0}
    /\ value_map_ \in [Names -> {Unbound} \cup Binding]
    /\ body \in Seq(Seq(Ssa))
    /\ returned \in Seq(Binding)

\* How far each loop has come, and what it leaves behind.
Progress ==
    /\ Len(body) <= Len(graph.nodes) /\ Len(returned) <= Len(graph.outputs)
    /\ pc = "arguments"    => next <= Len(graph.inputs) + 1
    /\ pc = "initializers" => next <= Len(graph.initializers) + 1
    /\ pc = "nodes"        => next <= Len(graph.nodes) + 1
    /\ pc = "outputs"      => next <= Len(graph.outputs) + 1
    /\ pc \in {"arguments", "initializers"} => body = << >>
    /\ pc \in {"arguments", "initializers", "nodes"} => returned = << >>
    /\ pc = "nodes"   => Len(body) = next - 1
    /\ pc = "outputs" => Len(body) = Len(graph.nodes) /\ Len(returned) = next - 1
    /\ pc = "done"    => Len(body) = Len(graph.nodes) /\ Len(returned) = Len(graph.outputs)

\* The element that a loop looks at.
LEMMA CurrentElement ==
    ASSUME MlirTypeOK
    PROVE  /\ next \in DOMAIN graph.inputs => graph.inputs[next] \in Names /\ next <= Len(graph.inputs)
           /\ next \in DOMAIN graph.initializers =>
                graph.initializers[next] \in Names /\ next <= Len(graph.initializers)
           /\ next \in DOMAIN graph.outputs => graph.outputs[next] \in Names /\ next <= Len(graph.outputs)
           /\ next \in DOMAIN graph.nodes =>
                LET node == graph.nodes[next]
                IN  /\ node \in Nodes /\ next <= Len(graph.nodes)
                    /\ \A name \in Names : graph.tensor[name].rank \in Nat /\ graph.tensor[name].bytes \in Nat
                    /\ node.inputs \in Seq(Names) /\ node.outputs \in Seq(Names)
           /\ \A name \in Names : Bound(name) => value_map_[name] \in Binding
  <1>1. \A node \in Nodes : node.inputs \in Seq(Names) /\ node.outputs \in Seq(Names)
    BY DEF Nodes
  <1>2. /\ graph.inputs \in Seq(Names) /\ graph.initializers \in Seq(Names) /\ graph.outputs \in Seq(Names)
        /\ graph.nodes \in Seq(Nodes)
        /\ \A name \in Names : graph.tensor[name].rank \in Nat /\ graph.tensor[name].bytes \in Nat
    BY GraphTypes DEF MlirTypeOK
  <1> QED
    BY <1>1, <1>2 DEF MlirTypeOK, Bound

\* The binding of a result has a rank, and the operands of the node were all bound.
LEMMA EmittedNode ==
    ASSUME MlirTypeOK, EmitNode
    PROVE  LET node  == graph.nodes[next]
               names == Operands(node)
               row   == [i \in DOMAIN names |-> value_map_[names[i]].ssa]
           IN  /\ next \in DOMAIN graph.nodes
               /\ node.outputs # << >> /\ node.outputs[1] \in Names
               /\ ResultRank(node) \in Nat
               /\ \A i \in DOMAIN names : names[i] \in Names /\ Bound(names[i])
               /\ row \in Seq(Ssa)
               /\ Ready(node) /\ node.op \in Supported
  <1> DEFINE node  == graph.nodes[next]
             names == Operands(node)
             count == IF HasBias(node) THEN 3 ELSE Looked(node.op)
             row   == [i \in DOMAIN names |-> value_map_[names[i]].ssa]
  <1>1. /\ pc = "nodes" /\ next \in DOMAIN graph.nodes
        /\ Ready(node) /\ ~RefusedLate(node)
    BY DEF EmitNode, Iterating
  <1>2. /\ node \in Nodes /\ node.inputs \in Seq(Names) /\ node.outputs \in Seq(Names)
        /\ \A name \in Names : graph.tensor[name].rank \in Nat /\ graph.tensor[name].bytes \in Nat
        /\ \A name \in Names : Bound(name) => value_map_[name] \in Binding
    BY <1>1, CurrentElement
  <1> HIDE DEF node
  <1>3. /\ Len(node.inputs) >= Arity(node.op) /\ Len(node.outputs) >= 1
        /\ \A i \in 1 .. Looked(node.op) : Bound(node.inputs[i])
        /\ node.op \in Supported
    BY <1>1 DEF Ready
  <1>4. /\ count \in 1 .. Len(node.inputs)
        /\ DOMAIN names = 1 .. count
        /\ \A i \in 1 .. count : names[i] = node.inputs[i] /\ node.inputs[i] \in Names
    BY <1>2, <1>3, OperandsOf
  <1>5. HasBias(node) => Bound(node.inputs[3]) /\ Looked(node.op) = 2
    BY <1>1 DEF RefusedLate, HasBias, Looked, Arity, Unary, Binary
  <1>6. \A i \in DOMAIN names : names[i] \in Names /\ Bound(names[i])
    <2>1. \A i \in 1 .. count : i \in 1 .. Looked(node.op) \/ (HasBias(node) /\ i = 3)
      BY <1>4, <1>5
    <2> QED
      BY <1>3, <1>4, <1>5, <2>1
  <1>7. row \in Seq(Ssa)
    <2>1. \A i \in 1 .. count : value_map_[names[i]].ssa \in Ssa
      <3>1. \A binding \in Binding : binding.ssa \in Ssa
        BY DEF Binding
      <3> QED
        BY <1>2, <1>4, <1>6, <3>1
    <2>2. count \in Nat
      BY <1>2, <1>4
    <2>3. row \in [1 .. count -> Ssa]
      BY <1>4, <2>1
    <2> HIDE DEF count, row
    <2> QED
      BY <2>2, <2>3
  <1>8. node.op = "Reshape" => W(node) \in Names
    BY <1>2, <1>3 DEF W, Arity, Unary, Binary
  <1>9. ResultRank(node) \in Nat
    <2>1. X(node) \in Names /\ Bound(X(node))
      <3>1. 1 \in DOMAIN names
        BY <1>2, <1>4
      <3> QED
        BY <1>4, <1>6, <3>1 DEF X
    <2>2. Rank(X(node)) \in Nat
      BY <1>2, <2>1 DEF Rank, Binding
    <2>3. node.op = "Reshape" => graph.tensor[W(node)].bytes \div 8 \in Nat
      BY <1>2, <1>8
    <2> QED
      BY <2>2, <2>3 DEF ResultRank
  <1>10. node.outputs # << >> /\ node.outputs[1] \in Names
    BY <1>2, <1>3
  <1> QED
    BY <1>1, <1>3, <1>6, <1>7, <1>9, <1>10 DEF node

LEMMA MlirTypeStep ==
    ASSUME MlirTypeOK, [Next]_vars
    PROVE  MlirTypeOK'
  <1>1. CASE UNCHANGED vars
    BY <1>1 DEF MlirTypeOK, vars
  <1>2. \A name, ssa, rank : Bind(name, ssa, rank) /\ ssa \in Ssa /\ rank \in Nat =>
            value_map_' \in [Names -> {Unbound} \cup Binding]
    <2> SUFFICES ASSUME NEW name, NEW ssa \in Ssa, NEW rank \in Nat, Bind(name, ssa, rank)
                 PROVE  value_map_' \in [Names -> {Unbound} \cup Binding]
      OBVIOUS
    <2> DEFINE new == [ssa |-> ssa, rank |-> rank]
    <2>1. new \in Binding
      BY DEF Binding
    <2>2. value_map_' = [value_map_ EXCEPT ![name] = new]
      BY DEF Bind
    <2> HIDE DEF new
    <2> QED
      BY <2>1, <2>2 DEF MlirTypeOK
  <1>3. \A outcome \in Phases : Stop(outcome) => pc' \in Phases /\ next' \in Nat \ {0}
    BY DEF Stop
  <1>4. Continue => pc' \in Phases /\ next' \in Nat \ {0}
    BY DEF Continue, MlirTypeOK
  <1>5. CASE BindArgument
    <2>1. <<"arg", next>> \in Ssa /\ graph.tensor[graph.inputs[next]].rank \in Nat
      BY <1>5, CurrentElement, GraphTypes DEF BindArgument, Iterating, MlirTypeOK, Ssa
    <2> QED
      BY <1>2, <1>3, <1>4, <1>5, <2>1 DEF BindArgument, MlirTypeOK, Phases
  <1>6. CASE EmitInitializer
    <2>1. <<"const", next>> \in Ssa /\ graph.tensor[graph.initializers[next]].rank \in Nat
      BY <1>6, CurrentElement, GraphTypes DEF EmitInitializer, Iterating, MlirTypeOK, Ssa
    <2>2. value_map_' \in [Names -> {Unbound} \cup Binding] /\ pc' \in Phases /\ next' \in Nat \ {0}
      BY <1>2, <1>3, <1>4, <1>6, <2>1 DEF EmitInitializer, MlirTypeOK, Phases
    <2> QED
      BY <1>6, <2>2 DEF EmitInitializer, MlirTypeOK
  <1>7. CASE EmitNode
    <2> DEFINE node == graph.nodes[next]
               row  == [i \in DOMAIN Operands(node) |-> value_map_[Operands(node)[i]].ssa]
    <2>1. row \in Seq(Ssa) /\ ResultRank(node) \in Nat /\ <<"result", next>> \in Ssa
      BY <1>7, EmittedNode DEF MlirTypeOK, Ssa
    <2>2. body' = Append(body, row) /\ Bind(node.outputs[1], <<"result", next>>, ResultRank(node))
          /\ Continue /\ UNCHANGED <<graph, returned>>
      BY <1>7 DEF EmitNode
    <2> HIDE DEF row, node
    <2>3. body' \in Seq(Seq(Ssa))
      BY <2>1, <2>2 DEF MlirTypeOK
    <2> QED
      BY <1>2, <1>4, <2>1, <2>2, <2>3 DEF MlirTypeOK
  <1>8. CASE RefuseNode \/ RefuseNodeLate \/ LoseNode \/ EndOfLoop
    BY <1>3, <1>8 DEF RefuseNode, RefuseNodeLate, LoseNode, EndOfLoop, MlirTypeOK, Phases
  <1>9. CASE CollectOutput
    <2> DEFINE name == graph.outputs[next]
               last == [value_map_[name] EXCEPT !.rank = IF @ > 2 THEN 2 ELSE @]
    <2>1. name \in Names
      BY <1>9, CurrentElement DEF CollectOutput, Iterating
    <2>2. Bound(name) => last \in Binding
      BY <2>1, CurrentElement DEF Binding
    <2>3. /\ UNCHANGED <<graph, value_map_, body>>
          /\ (~Bound(name) /\ Stop("failed") /\ returned' = returned)
                \/ (Bound(name) /\ Continue /\ returned' = Append(returned, last))
      BY <1>9 DEF CollectOutput
    <2> HIDE DEF last
    <2>4. returned' \in Seq(Binding)
      <3>1. CASE Bound(name)
        <4>1. returned' = Append(returned, last) /\ last \in Binding /\ returned \in Seq(Binding)
          BY <2>2, <2>3, <3>1 DEF MlirTypeOK
        <4> QED
          BY <4>1, AppendProperties
      <3>2. CASE ~Bound(name)
        BY <2>3, <3>2 DEF MlirTypeOK
      <3> QED
        BY <3>1, <3>2
    <2> QED
      BY <1>3, <1>4, <2>3, <2>4 DEF MlirTypeOK, Phases
  <1> QED
    BY <1>1, <1>5, <1>6, <1>7, <1>8, <1>9 DEF Next, Step

LEMMA MlirTypeCorrect == Spec => []MlirTypeOK
  <1>1. Init => MlirTypeOK
    BY DEF Init, MlirTypeOK, Phases
  <1>2. MlirTypeOK /\ [Next]_vars => MlirTypeOK'
    BY MlirTypeStep
  <1> QED
    BY <1>1, <1>2, PTL DEF Spec

LEMMA ProgressStep ==
    ASSUME MlirTypeOK, Progress, [Next]_vars
    PROVE  Progress'
  <1> DEFINE Lengths == /\ Len(graph.inputs) \in Nat /\ Len(graph.initializers) \in Nat
                        /\ Len(graph.nodes) \in Nat /\ Len(graph.outputs) \in Nat
                        /\ Len(body) \in Nat /\ Len(returned) \in Nat
  <1>1. Lengths
    BY GraphTypes DEF MlirTypeOK
  <1>2. CASE UNCHANGED vars
    BY <1>2 DEF Progress, vars
  <1>3. CASE BindArgument \/ EmitInitializer
    <2>1. /\ UNCHANGED <<graph, body, returned>> /\ pc \in {"arguments", "initializers"}
          /\ Continue \/ Stop("failed") \/ Stop("undefined")
          /\ pc = "arguments" => next <= Len(graph.inputs)
          /\ pc = "initializers" => next <= Len(graph.initializers)
      BY <1>3, CurrentElement DEF BindArgument, EmitInitializer, Iterating
    <2> QED
      BY <1>1, <2>1 DEF Progress, Continue, Stop, MlirTypeOK
  <1>4. CASE EmitNode
    <2> DEFINE row == [i \in DOMAIN Operands(graph.nodes[next]) |->
                            value_map_[Operands(graph.nodes[next])[i]].ssa]
    <2>1. /\ pc = "nodes" /\ next <= Len(graph.nodes) /\ row \in Seq(Ssa)
          /\ body' = Append(body, row) /\ Continue /\ UNCHANGED <<graph, returned>>
      BY <1>4, CurrentElement, EmittedNode DEF EmitNode, Iterating
    <2> HIDE DEF row
    <2>2. Len(body') = Len(body) + 1
      BY <2>1, AppendProperties DEF MlirTypeOK
    <2> QED
      BY <1>1, <2>1, <2>2 DEF Progress, Continue, MlirTypeOK
  <1>5. CASE RefuseNode \/ RefuseNodeLate \/ LoseNode
    BY <1>1, <1>5 DEF RefuseNode, RefuseNodeLate, LoseNode, Stop, Progress
  <1>6. CASE CollectOutput
    <2>1. /\ pc = "outputs" /\ next <= Len(graph.outputs) /\ UNCHANGED <<graph, body>>
          /\ \/ Stop("failed") /\ returned' = returned
             \/ Continue /\ \E b : returned' = Append(returned, b)
      BY <1>6, CurrentElement DEF CollectOutput, Iterating
    <2>2. \A b : returned' = Append(returned, b) => Len(returned') = Len(returned) + 1
      BY DEF MlirTypeOK
    <2>3. CASE Stop("failed") /\ returned' = returned
      BY <1>1, <2>1, <2>3 DEF Progress, Stop
    <2>4. CASE Continue /\ Len(returned') = Len(returned) + 1
      BY <1>1, <2>1, <2>4 DEF Progress, Continue, MlirTypeOK
    <2> QED
      BY <2>1, <2>2, <2>3, <2>4
  <1>7. CASE EndOfLoop
    BY <1>1, <1>7 DEF EndOfLoop, Stop, Progress, MlirTypeOK
  <1> QED
    BY <1>2, <1>3, <1>4, <1>5, <1>6, <1>7 DEF Next, Step

-----------------------------------------------------------------------------
(* What value_map_ says *)

Denotes(name) == IF Bound(name) THEN value_map_[name].ssa ELSE Unbound

\* While the declarations are bound a name means its declaration, once that was seen;
\* then, in front of each node, what it means there.
MapMeans == \A name \in Names :
    /\ pc = "arguments" => Denotes(name) =
          IF \E i \in 1 .. next - 1 : graph.inputs[i] = name THEN Declaration(graph, name) ELSE Unbound
    /\ pc = "initializers" => Denotes(name) =
          IF \/ name \in ToSet(graph.inputs)
             \/ \E i \in 1 .. next - 1 : graph.initializers[i] = name
          THEN Declaration(graph, name) ELSE Unbound
    /\ pc = "nodes" => Denotes(name) = MeaningAt(graph, next, name)
    /\ pc = "outputs" => Denotes(name) = MeaningAt(graph, Len(graph.nodes) + 1, name)

\* What was emitted took the meanings at its place, all of them values.
BodyMeans == \A n \in DOMAIN body :
    LET node  == graph.nodes[n]
        names == Operands(node)
    IN  /\ body[n] = [i \in DOMAIN names |-> MeaningAt(graph, n, names[i])]
        /\ \A i \in DOMAIN names : MeaningAt(graph, n, names[i]) # Unbound

ReturnedMeans == \A k \in DOMAIN returned :
    LET meaning == MeaningAt(graph, Len(graph.nodes) + 1, graph.outputs[k])
    IN  returned[k].ssa = meaning /\ meaning # Unbound

\* A plain graph is refused for the order of its nodes and nothing else.
PlainFails == Plain(graph) => pc # "undefined" /\ (pc = "failed" => ~Sorted(graph))

LEMMA Denotations ==
    ASSUME MlirTypeOK
    PROVE  /\ \A name \in Names : /\ Bound(name) <=> Denotes(name) # Unbound
                                  /\ Bound(name) => value_map_[name].ssa = Denotes(name)
           /\ UNCHANGED value_map_ => \A name \in Names : Denotes(name)' = Denotes(name)
           /\ \A name \in Names, ssa \in Ssa, rank \in Nat : Bind(name, ssa, rank) =>
                \A other \in Names : Denotes(other)' = IF other = name THEN ssa ELSE Denotes(other)
  <1>1. \A binding \in Binding : binding.ssa \in Ssa
    BY DEF Binding
  <1>2. \A name \in Names : Bound(name) => value_map_[name].ssa # Unbound
    BY <1>1, UnboundAssumption DEF MlirTypeOK, Bound
  <1>3. ASSUME NEW name \in Names, NEW ssa \in Ssa, NEW rank \in Nat, Bind(name, ssa, rank),
               NEW other \in Names
        PROVE  Denotes(other)' = IF other = name THEN ssa ELSE Denotes(other)
    <2> DEFINE new == [ssa |-> ssa, rank |-> rank]
    <2>1. new \in Binding /\ new.ssa = ssa
      BY DEF Binding
    <2>2. new # Unbound
      BY <2>1, UnboundAssumption
    <2>3. value_map_' = [value_map_ EXCEPT ![name] = new]
      BY <1>3 DEF Bind
    <2> HIDE DEF new
    <2> QED
      BY <2>1, <2>2, <2>3 DEF Denotes, Bound, MlirTypeOK
  <1> QED
    BY <1>2, <1>3 DEF Denotes, Bound

LEMMA MapStep ==
    ASSUME MlirTypeOK, Progress, MapMeans, [Next]_vars
    PROVE  MapMeans'
  <1>1. CASE UNCHANGED vars
    BY <1>1 DEF MapMeans, Denotes, Bound, vars
  <1>2. CASE BindArgument
    <2> DEFINE this == graph.inputs[next]
    <2>1. pc = "arguments" /\ next \in DOMAIN graph.inputs /\ graph' = graph /\ next \in Nat \ {0}
      BY <1>2 DEF BindArgument, Iterating, MlirTypeOK
    <2>2. CASE Stop("failed")
      BY <2>2 DEF Stop, MapMeans
    <2>3. CASE Continue /\ Bind(this, <<"arg", next>>, graph.tensor[this].rank)
      <3>1. /\ this \in Names /\ graph.tensor[this].rank \in Nat /\ <<"arg", next>> \in Ssa
            /\ Distinct(graph.inputs)
        BY <2>1, CurrentElement, GraphTypes DEF MlirTypeOK, Ssa
      <3>2. \A name \in Names : Denotes(name)' = IF name = this THEN <<"arg", next>> ELSE Denotes(name)
        BY <2>3, <3>1, Denotations
      <3>3. Declaration(graph, this) = <<"arg", next>>
        BY <2>1, <3>1, PositionIs DEF Declaration, ToSet
      <3>4. \A name : (\E i \in 1 .. next : graph.inputs[i] = name)
                        <=> name = this \/ \E i \in 1 .. next - 1 : graph.inputs[i] = name
        BY <2>1
      <3> HIDE DEF this
      <3>5. pc' = "arguments" /\ next' - 1 = next
        BY <2>1, <2>3 DEF Continue
      <3> QED
        BY <2>1, <3>2, <3>3, <3>4, <3>5 DEF MapMeans
    <2> QED
      BY <1>2, <2>2, <2>3 DEF BindArgument
  <1>3. CASE EmitInitializer
    <2> DEFINE this == graph.initializers[next]
    <2>1. /\ pc = "initializers" /\ next \in DOMAIN graph.initializers /\ graph' = graph
          /\ next \in Nat \ {0}
      BY <1>3 DEF EmitInitializer, Iterating, MlirTypeOK
    <2>2. /\ this \in Names /\ graph.tensor[this].rank \in Nat /\ <<"const", next>> \in Ssa
          /\ Distinct(graph.initializers) /\ this \in ToSet(graph.initializers)
          /\ this \notin ToSet(graph.inputs)
      BY <2>1, CurrentElement, GraphTypes DEF MlirTypeOK, Ssa, ToSet
    <2>3. Declaration(graph, this) = <<"const", next>>
      BY <2>1, <2>2, PositionIs DEF Declaration
    <2>4. \A name : (\E i \in 1 .. next : graph.initializers[i] = name)
                      <=> name = this \/ \E i \in 1 .. next - 1 : graph.initializers[i] = name
      BY <2>1
    <2>5. CASE Stop("failed") \/ Stop("undefined")
      BY <2>5 DEF Stop, MapMeans
    <2>6. CASE Continue /\ Bind(this, <<"const", next>>, graph.tensor[this].rank)
      <3>1. \A name \in Names : Denotes(name)' = IF name = this THEN <<"const", next>> ELSE Denotes(name)
        BY <2>2, <2>6, Denotations
      <3>2. pc' = "initializers" /\ next' - 1 = next
        BY <2>1, <2>6 DEF Continue
      <3> HIDE DEF this
      <3> QED
        BY <2>1, <2>3, <2>4, <3>1, <3>2 DEF MapMeans
    <2>7. CASE Bound(this) /\ Continue /\ UNCHANGED value_map_
      <3>1. /\ \A name \in Names : Denotes(name)' = Denotes(name)
            /\ Denotes(this) # Unbound
        BY <2>2, <2>7, Denotations
      <3>2. pc' = "initializers" /\ next' - 1 = next
        BY <2>1, <2>7 DEF Continue
      <3> HIDE DEF this
      <3>3. Denotes(this) = Declaration(graph, this)
        BY <2>1, <2>2, <3>1 DEF MapMeans
      <3> QED
        BY <2>1, <2>4, <3>1, <3>2, <3>3 DEF MapMeans
    <2> QED
      BY <1>3, <2>5, <2>6, <2>7 DEF EmitInitializer
  <1>4. CASE EmitNode
    <2> DEFINE node == graph.nodes[next]
               this == node.outputs[1]
    <2>1. /\ pc = "nodes" /\ graph' = graph /\ pc' = "nodes" /\ next' = next + 1 /\ next \in Nat \ {0}
          /\ Bind(this, <<"result", next>>, ResultRank(node))
      BY <1>4 DEF EmitNode, Iterating, Continue, MlirTypeOK
    <2>2. this \in Names /\ ResultRank(node) \in Nat /\ node.outputs # << >>
      BY <1>4, EmittedNode
    <2>3. <<"result", next>> \in Ssa
      BY <2>1 DEF Ssa
    <2>4. \A name \in Names : Denotes(name)' = IF name = this THEN <<"result", next>> ELSE Denotes(name)
      BY <2>1, <2>2, <2>3, Denotations
    <2>5. \A name : MeaningAt(graph, next + 1, name) =
                IF name = this THEN <<"result", next>> ELSE MeaningAt(graph, next, name)
      BY <2>1, <2>2, MeaningStep DEF Defines
    <2> HIDE DEF node, this
    <2> QED
      BY <2>1, <2>4, <2>5 DEF MapMeans
  <1>5. CASE RefuseNode \/ RefuseNodeLate \/ LoseNode
    BY <1>5 DEF RefuseNode, RefuseNodeLate, LoseNode, Stop, MapMeans
  <1>6. CASE CollectOutput
    <2>1. /\ pc = "outputs" /\ UNCHANGED <<graph, value_map_>> /\ (pc' = "outputs" \/ pc' = "failed")
      BY <1>6 DEF CollectOutput, Iterating, Continue, Stop
    <2> QED
      BY <2>1, Denotations DEF MapMeans
  <1>7. CASE EndOfLoop
    <2>1. UNCHANGED <<graph, value_map_>> /\ \A name \in Names : Denotes(name)' = Denotes(name)
      BY <1>7, Denotations DEF EndOfLoop
    <2>2. CASE pc = "arguments" /\ next > Len(graph.inputs) /\ Stop("initializers")
      <3>1. graph.inputs \in Seq(Names)
        BY GraphTypes DEF MlirTypeOK
      <3>2. \A name : (\E i \in 1 .. next - 1 : graph.inputs[i] = name) <=> name \in ToSet(graph.inputs)
        BY <2>2, <3>1 DEF ToSet, Progress, MlirTypeOK
      <3>3. pc' = "initializers" /\ next' = 1
        BY <2>2 DEF Stop
      <3> QED
        BY <2>1, <2>2, <3>2, <3>3 DEF MapMeans
    <2>3. CASE pc = "initializers" /\ next > Len(graph.initializers) /\ Stop("nodes")
      <3>1. graph.initializers \in Seq(Names)
        BY GraphTypes DEF MlirTypeOK
      <3>2. \A name : (\E i \in 1 .. next - 1 : graph.initializers[i] = name)
                            <=> name \in ToSet(graph.initializers)
        BY <2>3, <3>1 DEF ToSet, Progress, MlirTypeOK
      <3>3. pc' = "nodes" /\ next' = 1
        BY <2>3 DEF Stop
      <3>4. \A name : name \notin ToSet(graph.inputs) /\ name \notin ToSet(graph.initializers) =>
                Declaration(graph, name) = Unbound
        BY DEF Declaration
      <3> QED
        BY <2>1, <2>3, <3>2, <3>3, <3>4, MeaningStart DEF MapMeans
    <2>4. CASE pc = "nodes" /\ next > Len(graph.nodes) /\ Stop("outputs")
      <3>1. next = Len(graph.nodes) + 1
        BY <2>4, GraphTypes DEF Progress, MlirTypeOK
      <3> QED
        BY <2>1, <2>4, <3>1 DEF MapMeans, Stop
    <2>5. CASE pc = "outputs" /\ Stop("done")
      BY <2>5 DEF MapMeans, Stop
    <2> QED
      BY <1>7, <2>2, <2>3, <2>4, <2>5 DEF EndOfLoop
  <1> QED
    BY <1>1, <1>2, <1>3, <1>4, <1>5, <1>6, <1>7 DEF Next, Step

-----------------------------------------------------------------------------
(* What was emitted *)

\* The number of an op and the number of its node are the same.
LEMMA BodyStep ==
    ASSUME MlirTypeOK, Progress, MapMeans, BodyMeans, [Next]_vars
    PROVE  BodyMeans'
  <1>1. CASE UNCHANGED <<graph, body>>
    BY <1>1 DEF BodyMeans
  <1>2. CASE EmitNode
    <2> DEFINE node  == graph.nodes[next]
               names == Operands(node)
               row   == [i \in DOMAIN names |-> value_map_[names[i]].ssa]
    <2>1. /\ pc = "nodes" /\ graph' = graph /\ body' = Append(body, row)
          /\ Len(body) = next - 1 /\ next \in Nat \ {0}
      BY <1>2 DEF EmitNode, Iterating, Progress, MlirTypeOK
    <2>2. /\ \A i \in DOMAIN names : names[i] \in Names /\ Bound(names[i])
          /\ row \in Seq(Ssa)
      BY <1>2, EmittedNode
    <2>3. \A i \in DOMAIN names : /\ value_map_[names[i]].ssa = MeaningAt(graph, next, names[i])
                                  /\ MeaningAt(graph, next, names[i]) # Unbound
      BY <2>1, <2>2, Denotations DEF MapMeans
    <2>4. row = [i \in DOMAIN names |-> MeaningAt(graph, next, names[i])]
      BY <2>3
    <2>5. \A n \in DOMAIN body' : /\ n = next => body'[n] = row
                                  /\ n # next => n \in DOMAIN body /\ body'[n] = body[n]
      <3>1. body \in Seq(Seq(Ssa))
        BY DEF MlirTypeOK
      <3> HIDE DEF row
      <3> QED
        BY <2>1, <2>2, <3>1, AppendProperties
    <2> SUFFICES ASSUME NEW n \in DOMAIN body'
                 PROVE  /\ body'[n] = [i \in DOMAIN Operands(graph.nodes[n]) |->
                                            MeaningAt(graph, n, Operands(graph.nodes[n])[i])]
                        /\ \A i \in DOMAIN Operands(graph.nodes[n]) :
                                MeaningAt(graph, n, Operands(graph.nodes[n])[i]) # Unbound
      BY <2>1 DEF BodyMeans
    <2>6. CASE n = next
      BY <2>2, <2>3, <2>4, <2>5, <2>6
    <2>7. CASE n # next
      BY <2>5, <2>7 DEF BodyMeans
    <2> QED
      BY <2>6, <2>7
  <1> QED
    BY <1>1, <1>2 DEF Next, Step, BindArgument, EmitInitializer, RefuseNode, RefuseNodeLate, LoseNode,
                      CollectOutput, EndOfLoop, vars

LEMMA ReturnedStep ==
    ASSUME MlirTypeOK, Progress, MapMeans, ReturnedMeans, [Next]_vars
    PROVE  ReturnedMeans'
  <1>1. CASE UNCHANGED <<graph, returned>>
    BY <1>1 DEF ReturnedMeans
  <1>2. CASE CollectOutput /\ returned' # returned
    <2> DEFINE name == graph.outputs[next]
               last == [value_map_[name] EXCEPT !.rank = IF @ > 2 THEN 2 ELSE @]
    <2>1. /\ pc = "outputs" /\ graph' = graph /\ Bound(name) /\ returned' = Append(returned, last)
          /\ Len(returned) = next - 1 /\ next \in Nat \ {0} /\ name \in Names
      BY <1>2, CurrentElement DEF CollectOutput, Iterating, Progress, MlirTypeOK
    <2>2. value_map_[name] \in Binding
      BY <2>1, CurrentElement
    <2>3. last \in Binding /\ last.ssa = value_map_[name].ssa
      BY <2>2 DEF Binding
    <2>4. last.ssa = MeaningAt(graph, Len(graph.nodes) + 1, name) /\ last.ssa # Unbound
      BY <2>1, <2>3, Denotations DEF MapMeans
    <2> HIDE DEF last
    <2>5. \A k \in DOMAIN returned' : /\ k = next => returned'[k] = last
                                      /\ k # next => k \in DOMAIN returned /\ returned'[k] = returned[k]
      <3>1. returned \in Seq(Binding)
        BY DEF MlirTypeOK
      <3> QED
        BY <2>1, <2>3, <3>1, AppendProperties
    <2> SUFFICES ASSUME NEW k \in DOMAIN returned'
                 PROVE  /\ returned'[k].ssa = MeaningAt(graph, Len(graph.nodes) + 1, graph.outputs[k])
                        /\ MeaningAt(graph, Len(graph.nodes) + 1, graph.outputs[k]) # Unbound
      BY <2>1 DEF ReturnedMeans
    <2>6. CASE k = next
      BY <2>4, <2>5, <2>6
    <2>7. CASE k # next
      BY <2>5, <2>7 DEF ReturnedMeans
    <2> QED
      BY <2>6, <2>7
  <1>3. CollectOutput => graph' = graph
    BY DEF CollectOutput
  <1> QED
    BY <1>1, <1>2, <1>3 DEF Next, Step, BindArgument, EmitInitializer, EmitNode, RefuseNode,
                            RefuseNodeLate, LoseNode, EndOfLoop, vars

\* Where an operand or an output is not bound, the graph is not sorted.
LEMMA UnboundIsUnsorted ==
    ASSUME MlirTypeOK, MapMeans
    PROVE  /\ \A name \in Names : pc = "nodes" /\ ~Bound(name) /\ next \in DOMAIN graph.nodes
                    /\ name \in ToSet(Operands(graph.nodes[next])) => ~Sorted(graph)
           /\ \A name \in Names : pc = "outputs" /\ ~Bound(name)
                    /\ name \in ToSet(graph.outputs) => ~Sorted(graph)
  BY Denotations DEF MapMeans, Sorted

LEMMA PlainStep ==
    ASSUME MlirTypeOK, Progress, MapMeans, PlainFails, [Next]_vars
    PROVE  PlainFails'
  <1> SUFFICES ASSUME Plain(graph'), pc' # pc
               PROVE  pc' # "undefined" /\ (pc' = "failed" => ~Sorted(graph'))
    <2>1. graph' = graph
      BY DEF Next, Step, BindArgument, EmitInitializer, EmitNode, RefuseNode, RefuseNodeLate, LoseNode,
             CollectOutput, EndOfLoop, vars
    <2> QED
      BY <2>1 DEF PlainFails
  <1>1. graph' = graph /\ Plain(graph)
    BY DEF Next, Step, BindArgument, EmitInitializer, EmitNode, RefuseNode, RefuseNodeLate, LoseNode,
           CollectOutput, EndOfLoop, vars
  <1>2. next \in DOMAIN graph.nodes =>
            /\ graph.nodes[next].op \in {"Add", "Mul", "Relu"}
            /\ Len(graph.nodes[next].inputs) >= Arity(graph.nodes[next].op)
            /\ Len(graph.nodes[next].outputs) >= 1
    BY <1>1 DEF Plain
  <1>3. CASE BindArgument
    BY <1>1, <1>3 DEF BindArgument, Iterating, Plain, Continue
  <1>4. CASE EmitInitializer
    <2>1. next \in DOMAIN graph.initializers
      BY <1>4 DEF EmitInitializer, Iterating
    <2>2. LET t == graph.tensor[graph.initializers[next]] IN t.typed /\ t.bytes > 0 /\ t.fits
      BY <1>1, <2>1 DEF Plain, ToSet
    <2>3. graph.tensor[graph.initializers[next]].bytes \in Nat
      BY <2>1, CurrentElement, GraphTypes DEF MlirTypeOK
    <2> QED
      BY <1>4, <2>2, <2>3 DEF EmitInitializer, Continue
  <1>5. CASE RefuseNode
    <2> DEFINE node == graph.nodes[next]
    <2>1. pc = "nodes" /\ next \in DOMAIN graph.nodes /\ ~Ready(node) /\ pc' = "failed"
      BY <1>5 DEF RefuseNode, Iterating, Stop
    <2>2. node \in Nodes
      BY <2>1, CurrentElement
    <2>3. node.op \in {"Add", "Mul", "Relu"} /\ Len(node.inputs) >= Arity(node.op) /\ Len(node.outputs) >= 1
      BY <1>2, <2>1
    <2> HIDE DEF node
    <2>4. PICK i \in 1 .. Looked(node.op) : ~Bound(node.inputs[i])
      BY <2>1, <2>3 DEF Ready, Supported, Unary, Binary
    <2>5. ~HasBias(node)
      BY <2>3 DEF HasBias
    <2>6. i \in DOMAIN Operands(node) /\ Operands(node)[i] = node.inputs[i] /\ node.inputs[i] \in Names
      BY <2>2, <2>3, <2>5, OperandsOf
    <2>7. node.inputs[i] \in ToSet(Operands(node))
      BY <2>6 DEF ToSet
    <2> QED
      BY <1>1, <2>1, <2>4, <2>6, <2>7, UnboundIsUnsorted DEF node
  <1>6. CASE RefuseNodeLate \/ LoseNode
    <2> DEFINE node == graph.nodes[next]
    <2>1. next \in DOMAIN graph.nodes /\ (IndexesTooFar(node) \/ RefusedLate(node))
      BY <1>6 DEF RefuseNodeLate, LoseNode, Iterating
    <2>2. node.op \in {"Add", "Mul", "Relu"}
      BY <1>2, <2>1
    <2> HIDE DEF node
    <2> QED
      BY <2>1, <2>2 DEF IndexesTooFar, RefusedLate, HasBias
  <1>7. CASE CollectOutput
    <2>1. /\ pc = "outputs" /\ next \in DOMAIN graph.outputs /\ pc' = "failed" /\ ~Bound(graph.outputs[next])
          /\ graph.outputs[next] \in Names
      BY <1>7, CurrentElement DEF CollectOutput, Iterating, Stop, Continue
    <2> QED
      BY <1>1, <2>1, UnboundIsUnsorted DEF ToSet
  <1>8. CASE EmitNode \/ EndOfLoop \/ UNCHANGED vars
    BY <1>8 DEF EmitNode, EndOfLoop, Continue, Stop, vars
  <1> QED
    BY <1>3, <1>4, <1>5, <1>6, <1>7, <1>8 DEF Next, Step

-----------------------------------------------------------------------------
(* What ranks the bindings have *)

\* Ranks of the results that agree with ONNX at every node.
Typing(g, results) ==
    /\ results \in [DOMAIN g.nodes -> Ranks]
    /\ \A n \in DOMAIN g.nodes : FollowsOnnx(g, results, n)

\* A binding has the rank that every such typing gives its name at that place.
RankMeans == \A results : Typing(graph, results) => \A name \in Names : Bound(name) =>
    /\ pc \in {"arguments", "initializers"} => Rank(name) = graph.tensor[name].rank
    /\ pc = "nodes" => Rank(name) = RankAt(graph, results, next, name)

\* A well-formed graph is neither refused nor mistreated.
WellFormedGoesOn == WellFormed(graph) => pc \notin {"failed", "undefined"}

\* One node further, the name of its first output has the rank of its result.
LEMMA RankStep ==
    ASSUME NEW g \in Graphs, NEW results, NEW n \in Nat \ {0}, NEW name
    PROVE  RankAt(g, results, n + 1, name) = IF Defines(g.nodes[n], name) THEN results[n]
                                             ELSE RankAt(g, results, n, name)
  <1>1. <<"result", n>> \in Ssa /\ <<"result", n>>[2] = n
    BY DEF Ssa
  <1>2. <<"result", n>> # Declaration(g, name)
    BY <1>1, UnboundAssumption DEF Declaration
  <1> QED
    BY <1>1, <1>2, MeaningStep DEF RankAt

LEMMA RankStart == \A g, results, name : RankAt(g, results, 1, name) = g.tensor[name].rank
  BY MeaningStart DEF RankAt

\* What a binding does to the ranks.
LEMMA BoundRanks ==
    ASSUME MlirTypeOK, NEW name \in Names, NEW ssa \in Ssa, NEW rank \in Nat, Bind(name, ssa, rank),
           NEW other \in Names
    PROVE  /\ other = name => Rank(other)' = rank
           /\ other # name => Bound(other)' = Bound(other) /\ Rank(other)' = Rank(other)
  <1> DEFINE new == [ssa |-> ssa, rank |-> rank]
  <1>1. new.rank = rank /\ value_map_' = [value_map_ EXCEPT ![name] = new]
    BY DEF Bind
  <1> HIDE DEF new
  <1> QED
    BY <1>1 DEF Bound, Rank, MlirTypeOK

\* Where the operands have the ranks of a typing, so has the result; no dimension is
\* missing, and only a bias that is not bound can be a reason to refuse.
LEMMA FitsTyping ==
    ASSUME MlirTypeOK, RankMeans, pc = "nodes", next \in DOMAIN graph.nodes,
           Ready(graph.nodes[next]), NEW results, Typing(graph, results)
    PROVE  LET node == graph.nodes[next]
           IN  /\ ~IndexesTooFar(node)
               /\ ResultRank(node) = results[next]
               /\ (\A name \in ToSet(graph.initializers) : graph.tensor[name].bytes > 0) /\ RefusedLate(node)
                        => HasBias(node) /\ ~Bound(node.inputs[3])
  <1> DEFINE node == graph.nodes[next]
             r(i) == RankAt(graph, results, next, node.inputs[i])
  <1>1. /\ node \in Nodes /\ node.inputs \in Seq(Names)
        /\ \A name \in Names : graph.tensor[name].bytes \in Nat
        /\ \A name \in Names : Bound(name) => value_map_[name] \in Binding
    BY CurrentElement
  <1>2. FollowsOnnx(graph, results, next)
    BY DEF Typing
  <1>3. \A name \in Names : Bound(name) => /\ Rank(name) = RankAt(graph, results, next, name)
                                           /\ Rank(name) \in Nat
    BY <1>1 DEF RankMeans, Rank, Binding
  <1>4. node.op \in Supported /\ Len(node.inputs) >= Arity(node.op)
        /\ \A i \in 1 .. Looked(node.op) : Bound(node.inputs[i])
    BY DEF Ready
  <1>5. Rank(X(node)) = r(1) /\ r(1) \in Nat
    <2>1. 1 \in DOMAIN node.inputs /\ 1 \in 1 .. Looked(node.op)
      BY <1>1, <1>4 DEF Looked, Arity, Unary, Binary
    <2> QED
      BY <1>1, <1>3, <1>4, <2>1 DEF X
  <1>6. node.op \in {"MatMul", "Gemm", "Conv"} => Rank(W(node)) = r(2) /\ r(2) \in Nat
    <2> SUFFICES ASSUME node.op \in {"MatMul", "Gemm", "Conv"}
                 PROVE  Rank(W(node)) = r(2) /\ r(2) \in Nat
      OBVIOUS
    <2>1. 2 \in DOMAIN node.inputs /\ 2 \in 1 .. Looked(node.op)
      BY <1>1, <1>4 DEF Looked, Arity, Unary, Binary
    <2> QED
      BY <1>1, <1>3, <1>4, <2>1 DEF W
  <1>7. node.axis \in Int /\ X(node) = node.inputs[1] /\ W(node) = node.inputs[2]
    BY <1>1 DEF Nodes, X, W
  <1>8. ~IndexesTooFar(node)
    BY <1>2, <1>5, <1>6, <1>7 DEF FollowsOnnx, IndexesTooFar, Axis
  <1>9. ResultRank(node) = results[next]
    BY <1>2, <1>4, <1>5, <1>7 DEF FollowsOnnx, ResultRank, Supported, Unary, Binary
  <1>10. ASSUME \A name \in ToSet(graph.initializers) : graph.tensor[name].bytes > 0, RefusedLate(node)
         PROVE  HasBias(node) /\ ~Bound(node.inputs[3])
    <2>1. ~(node.op = "Gemm" /\ node.trans = {"A", "B"})
      BY <1>2 DEF FollowsOnnx
    <2>2. ~(node.op = "Softmax" /\ Axis(node) \notin 0 .. Rank(X(node)) - 1)
      BY <1>2, <1>5, <1>7 DEF FollowsOnnx, Axis
    <2>3. node.op = "Reshape" => graph.tensor[W(node)].bytes # 0 /\ graph.tensor[W(node)].bytes % 8 = 0
      BY <1>2, <1>10 DEF FollowsOnnx
    <2> QED
      BY <1>10, <2>1, <2>2, <2>3 DEF RefusedLate
  <1> QED
    BY <1>8, <1>9, <1>10

LEMMA RankMeansStep ==
    ASSUME MlirTypeOK, Progress, RankMeans, [Next]_vars
    PROVE  RankMeans'
  <1>1. graph' = graph /\ graph \in Graphs
    BY DEF Next, Step, BindArgument, EmitInitializer, EmitNode, RefuseNode, RefuseNodeLate, LoseNode,
           CollectOutput, EndOfLoop, vars, MlirTypeOK
  <1> SUFFICES ASSUME NEW results, Typing(graph, results), NEW name \in Names, Bound(name)'
               PROVE  /\ pc' \in {"arguments", "initializers"} => Rank(name)' = graph.tensor[name].rank
                      /\ pc' = "nodes" => Rank(name)' = RankAt(graph, results, next', name)
    BY <1>1 DEF RankMeans
  <1>2. UNCHANGED value_map_ => Bound(name) /\ Rank(name)' = Rank(name)
    BY DEF Bound, Rank
  <1>3. Bound(name) =>
            /\ pc \in {"arguments", "initializers"} => Rank(name) = graph.tensor[name].rank
            /\ pc = "nodes" => Rank(name) = RankAt(graph, results, next, name)
    BY DEF RankMeans
  <1>4. CASE UNCHANGED vars
    BY <1>2, <1>3, <1>4 DEF vars
  <1>5. CASE BindArgument \/ EmitInitializer
    <2>1. /\ pc \in {"arguments", "initializers"}
          /\ pc' \in {"arguments", "initializers", "failed", "undefined"}
      BY <1>5 DEF BindArgument, EmitInitializer, Iterating, Continue, Stop
    <2>2. CASE UNCHANGED value_map_
      BY <1>2, <1>3, <2>1, <2>2
    <2>3. CASE \E other \in Names, ssa \in Ssa : Bind(other, ssa, graph.tensor[other].rank)
      <3>1. PICK other \in Names, ssa \in Ssa : Bind(other, ssa, graph.tensor[other].rank)
        BY <2>3
      <3>2. graph.tensor[other].rank \in Nat
        BY <1>1, GraphTypes
      <3>3. /\ name = other => Rank(name)' = graph.tensor[other].rank
            /\ name # other => Bound(name)' = Bound(name) /\ Rank(name)' = Rank(name)
        BY <3>1, <3>2, BoundRanks
      <3> QED
        BY <1>3, <2>1, <3>3
    <2>4. next \in Nat /\ <<"arg", next>> \in Ssa /\ <<"const", next>> \in Ssa
      BY DEF MlirTypeOK, Ssa
    <2> QED
      BY <1>5, <2>2, <2>3, <2>4, CurrentElement DEF BindArgument, EmitInitializer, Iterating
  <1>6. CASE EmitNode
    <2> DEFINE node == graph.nodes[next]
               this == node.outputs[1]
    <2>1. /\ pc = "nodes" /\ pc' = "nodes" /\ next' = next + 1 /\ next \in Nat \ {0}
          /\ Bind(this, <<"result", next>>, ResultRank(node))
      BY <1>6 DEF EmitNode, Iterating, Continue, MlirTypeOK
    <2>2. /\ this \in Names /\ ResultRank(node) \in Nat /\ node.outputs # << >>
          /\ next \in DOMAIN graph.nodes /\ Ready(node)
      BY <1>6, EmittedNode
    <2>3. <<"result", next>> \in Ssa
      BY <2>1 DEF Ssa
    <2>4. ResultRank(node) = results[next]
      BY <2>1, <2>2, FitsTyping
    <2>5. RankAt(graph, results, next + 1, name) =
                IF name = this THEN results[next] ELSE RankAt(graph, results, next, name)
      BY <1>1, <2>1, <2>2, RankStep DEF Defines
    <2>6. /\ name = this => Rank(name)' = ResultRank(node)
          /\ name # this => Bound(name)' = Bound(name) /\ Rank(name)' = Rank(name)
      BY <2>1, <2>2, <2>3, BoundRanks
    <2> HIDE DEF node, this
    <2> QED
      BY <1>3, <2>1, <2>4, <2>5, <2>6
  <1>7. CASE RefuseNode \/ RefuseNodeLate \/ LoseNode \/ CollectOutput
    BY <1>7 DEF RefuseNode, RefuseNodeLate, LoseNode, CollectOutput, Iterating, Stop, Continue
  <1>8. CASE EndOfLoop
    BY <1>2, <1>3, <1>8, RankStart DEF EndOfLoop, Stop
  <1> QED
    BY <1>4, <1>5, <1>6, <1>7, <1>8 DEF Next, Step

LEMMA WellFormedStep ==
    ASSUME MlirTypeOK, Progress, MapMeans, RankMeans, WellFormedGoesOn, [Next]_vars
    PROVE  WellFormedGoesOn'
  <1>1. graph' = graph
    BY DEF Next, Step, BindArgument, EmitInitializer, EmitNode, RefuseNode, RefuseNodeLate, LoseNode,
           CollectOutput, EndOfLoop, vars
  <1> SUFFICES ASSUME WellFormed(graph), pc \notin {"failed", "undefined"}
               PROVE  pc' \notin {"failed", "undefined"}
    BY <1>1 DEF WellFormedGoesOn
  <1>2. PICK results : Typing(graph, results)
    BY DEF WellFormed, Typing
  <1>3. \A name \in ToSet(graph.initializers) : graph.tensor[name].bytes > 0
    BY DEF WellFormed
  <1>4. next \in DOMAIN graph.nodes =>
            LET node == graph.nodes[next]
            IN  /\ node \in Nodes /\ node.op \in Supported
                /\ Len(node.inputs) >= Arity(node.op) /\ Len(node.outputs) >= 1
    BY CurrentElement DEF WellFormed
  <1>5. ASSUME NEW i, pc = "nodes", next \in DOMAIN graph.nodes,
               i \in DOMAIN Operands(graph.nodes[next]), ~Bound(graph.nodes[next].inputs[i])
        PROVE  FALSE
    <2> DEFINE node == graph.nodes[next]
    <2>1. Operands(node)[i] = node.inputs[i] /\ node.inputs[i] \in Names
      BY <1>4, <1>5, OperandsOf
    <2>2. node.inputs[i] \in ToSet(Operands(node))
      BY <1>5, <2>1 DEF ToSet
    <2> QED
      BY <1>5, <2>1, <2>2, UnboundIsUnsorted DEF WellFormed
  <1>6. CASE BindArgument
    BY <1>6 DEF BindArgument, WellFormed, Continue
  <1>7. CASE EmitInitializer
    <2>1. next \in DOMAIN graph.initializers
      BY <1>7 DEF EmitInitializer, Iterating
    <2>2. LET t == graph.tensor[graph.initializers[next]] IN t.typed /\ t.bytes > 0 /\ t.fits
      BY <2>1 DEF WellFormed, ToSet
    <2>3. graph.tensor[graph.initializers[next]].bytes \in Nat
      BY <2>1, CurrentElement, GraphTypes DEF MlirTypeOK
    <2> QED
      BY <1>7, <2>2, <2>3 DEF EmitInitializer, Continue
  <1>8. ~RefuseNode
    <2> SUFFICES ASSUME RefuseNode
                 PROVE  FALSE
      OBVIOUS
    <2> DEFINE node == graph.nodes[next]
    <2>1. pc = "nodes" /\ next \in DOMAIN graph.nodes /\ ~Ready(node)
      BY DEF RefuseNode, Iterating
    <2>2. PICK i \in 1 .. Looked(node.op) : ~Bound(node.inputs[i])
      BY <1>4, <2>1 DEF Ready
    <2>3. i \in DOMAIN Operands(node)
      BY <1>4, <2>1, <2>2, OperandsOf DEF HasBias, Looked, Arity, Unary, Binary
    <2> QED
      BY <1>5, <2>1, <2>2, <2>3
  <1>9. ~RefuseNodeLate /\ ~LoseNode
    <2> SUFFICES ASSUME RefuseNodeLate \/ LoseNode
                 PROVE  FALSE
      OBVIOUS
    <2> DEFINE node == graph.nodes[next]
    <2>1. /\ pc = "nodes" /\ next \in DOMAIN graph.nodes /\ Ready(node)
          /\ IndexesTooFar(node) \/ RefusedLate(node)
      BY DEF RefuseNodeLate, LoseNode, Iterating
    <2>2. HasBias(node) /\ ~Bound(node.inputs[3])
      BY <1>2, <1>3, <2>1, FitsTyping
    <2>3. 3 \in DOMAIN Operands(node)
      BY <1>4, <2>1, <2>2, OperandsOf
    <2> QED
      BY <1>5, <2>1, <2>2, <2>3
  <1>10. CASE CollectOutput
    <2>1. /\ pc = "outputs" /\ next \in DOMAIN graph.outputs /\ graph.outputs[next] \in Names
      BY <1>10, CurrentElement DEF CollectOutput, Iterating
    <2>2. Bound(graph.outputs[next])
      BY <2>1, UnboundIsUnsorted DEF ToSet, WellFormed
    <2> QED
      BY <1>10, <2>2 DEF CollectOutput, Continue
  <1>11. CASE EmitNode \/ EndOfLoop \/ UNCHANGED vars
    BY <1>11 DEF EmitNode, EndOfLoop, Continue, Stop, vars
  <1> QED
    BY <1>6, <1>7, <1>8, <1>9, <1>10, <1>11 DEF Next, Step

-----------------------------------------------------------------------------
(* Theorems *)

\* The inductive invariant.
MlirInv ==
    /\ MlirTypeOK /\ Progress /\ MapMeans /\ BodyMeans /\ ReturnedMeans
    /\ PlainFails /\ RankMeans /\ WellFormedGoesOn

LEMMA MlirInvAlways == Spec => []MlirInv
  <1>1. Init => MlirInv
    <2> SUFFICES ASSUME Init
                 PROVE  MlirInv
      OBVIOUS
    <2>1. MlirTypeOK
      BY DEF Init, MlirTypeOK, Phases
    <2>2. Progress
      BY <2>1, GraphTypes DEF Init, Progress, MlirTypeOK
    <2>3. MapMeans
      BY DEF Init, MapMeans, Denotes, Bound
    <2>4. RankMeans
      BY DEF Init, RankMeans, Bound
    <2> QED
      BY <2>1, <2>2, <2>3, <2>4 DEF Init, MlirInv, BodyMeans, ReturnedMeans, PlainFails, WellFormedGoesOn
  <1>2. MlirInv /\ [Next]_vars => MlirInv'
    BY MlirTypeStep, ProgressStep, MapStep, BodyStep, ReturnedStep, PlainStep, RankMeansStep, WellFormedStep
       DEF MlirInv
  <1> QED
    BY <1>1, <1>2, PTL DEF Spec

\* An op takes the values that its names mean at that place, and the function returns
\* what the outputs mean at its end, also where nodes redefine declared names.
THEOREM OperandsAlwaysLatest == Spec => []OperandsAreLatest
  <1>1. MlirInv => OperandsAreLatest
    BY DEF MlirInv, BodyMeans, ReturnedMeans, OperandsAreLatest
  <1> QED
    BY <1>1, MlirInvAlways, PTL

\* Without shadowing, what a name means at a node, if anything, is what it means in the
\* graph.
LEMMA MeaningHere ==
    ASSUME NEW g \in Graphs, NoShadowing(g), NEW n \in 1 .. Len(g.nodes) + 1, NEW name,
           MeaningAt(g, n, name) # Unbound
    PROVE  MeaningAt(g, n, name) = Meaning(g, name)
  <1> DEFINE before == {m \in 1 .. n - 1 : Defines(g.nodes[m], name)}
  <1>1. g.nodes \in Seq(Nodes) /\ \A m, k \in DOMAIN g.nodes :
            Defines(g.nodes[m], name) /\ Defines(g.nodes[k], name) => m = k
    BY GraphTypes
  <1>2. \A m \in DOMAIN g.nodes : Defines(g.nodes[m], name) =>
            name \notin ToSet(g.inputs) \cup ToSet(g.initializers)
    BY GraphTypes DEF NoShadowing
  <1>3. before \subseteq DOMAIN g.nodes
    BY <1>1
  <1>4. CASE \E m \in DOMAIN g.nodes : Defines(g.nodes[m], name)
    <2>1. PICK m \in DOMAIN g.nodes : Defines(g.nodes[m], name)
      BY <1>4
    <2>2. Declaration(g, name) = Unbound
      BY <1>2, <2>1 DEF Declaration
    <2>3. before # {}
      BY <2>2 DEF MeaningAt
    <2>4. before = {m}
      BY <1>1, <1>3, <2>1, <2>3
    <2>5. m \in Nat
      BY <1>1
    <2>6. Max(before) = m
      BY <2>4, <2>5 DEF Max
    <2>7. MeaningAt(g, n, name) = <<"result", m>>
      BY <2>3, <2>6 DEF MeaningAt
    <2>8. Meaning(g, name) = <<"result", m>>
      BY <1>1, <2>1 DEF Meaning
    <2> QED
      BY <2>7, <2>8
  <1>5. CASE ~\E m \in DOMAIN g.nodes : Defines(g.nodes[m], name)
    BY <1>3, <1>5 DEF MeaningAt, Meaning
  <1> QED
    BY <1>4, <1>5

\* Without shadowing an op takes the result of the producer that the graph records for
\* the name, or the declaration.
THEOREM OperandsAlwaysProducers == Spec => []OperandsAreProducers
  <1>1. MlirInv => OperandsAreProducers
    <2> SUFFICES ASSUME MlirInv, NoShadowing(graph)
                 PROVE  /\ \A n \in DOMAIN body : body[n] = [i \in DOMAIN Operands(graph.nodes[n]) |->
                                Meaning(graph, Operands(graph.nodes[n])[i])]
                        /\ \A k \in DOMAIN returned : returned[k].ssa = Meaning(graph, graph.outputs[k])
      BY DEF OperandsAreProducers
    <2>1. /\ graph \in Graphs /\ graph.nodes \in Seq(Nodes)
          /\ body \in Seq(Seq(Ssa)) /\ Len(body) <= Len(graph.nodes)
      BY GraphTypes DEF MlirInv, MlirTypeOK, Progress
    <2>2. \A n \in DOMAIN body : n \in 1 .. Len(graph.nodes) + 1
      BY <2>1
    <2>3. Len(graph.nodes) + 1 \in 1 .. Len(graph.nodes) + 1
      BY <2>1
    <2>4. ASSUME NEW n \in DOMAIN body
          PROVE  body[n] = [i \in DOMAIN Operands(graph.nodes[n]) |->
                                Meaning(graph, Operands(graph.nodes[n])[i])]
      <3> DEFINE names == Operands(graph.nodes[n])
      <3>1. /\ body[n] = [i \in DOMAIN names |-> MeaningAt(graph, n, names[i])]
            /\ \A i \in DOMAIN names : MeaningAt(graph, n, names[i]) # Unbound
        BY DEF MlirInv, BodyMeans
      <3>2. \A i \in DOMAIN names : MeaningAt(graph, n, names[i]) = Meaning(graph, names[i])
        BY <2>1, <2>2, <3>1, MeaningHere
      <3> HIDE DEF names
      <3>3. body[n] = [i \in DOMAIN names |-> Meaning(graph, names[i])]
        BY <3>1, <3>2
      <3> QED
        BY <3>3 DEF names
    <2>5. ASSUME NEW k \in DOMAIN returned
          PROVE  returned[k].ssa = Meaning(graph, graph.outputs[k])
      BY <2>1, <2>3, MeaningHere DEF MlirInv, ReturnedMeans
    <2> QED
      BY <2>4, <2>5
  <1> QED
    BY <1>1, MlirInvAlways, PTL

\* A module comes out only of a sorted graph, and out of every sorted graph that is plain.
THEOREM EmitsAlwaysSorted == Spec => []EmitsExactlySorted
  <1>1. MlirInv => EmitsExactlySorted
    <2> SUFFICES ASSUME MlirInv, pc = "done"
                 PROVE  Sorted(graph)
      BY DEF MlirInv, PlainFails, EmitsExactlySorted
    <2>1. /\ graph.nodes \in Seq(Nodes) /\ graph.outputs \in Seq(Names)
          /\ body \in Seq(Seq(Ssa)) /\ returned \in Seq(Binding)
          /\ Len(body) = Len(graph.nodes) /\ Len(returned) = Len(graph.outputs)
      BY GraphTypes DEF MlirInv, MlirTypeOK, Progress
    <2>2. DOMAIN body = DOMAIN graph.nodes /\ DOMAIN returned = DOMAIN graph.outputs
      BY <2>1
    <2>3. ASSUME NEW n \in DOMAIN graph.nodes, NEW name \in ToSet(Operands(graph.nodes[n]))
          PROVE  MeaningAt(graph, n, name) # Unbound
      <3> DEFINE names == Operands(graph.nodes[n])
      <3>1. \A i \in DOMAIN names : MeaningAt(graph, n, names[i]) # Unbound
        BY <2>2 DEF MlirInv, BodyMeans
      <3>2. PICK i \in DOMAIN names : names[i] = name
        BY DEF ToSet
      <3> QED
        BY <3>1, <3>2
    <2>4. ASSUME NEW name \in ToSet(graph.outputs)
          PROVE  MeaningAt(graph, Len(graph.nodes) + 1, name) # Unbound
      BY <2>2 DEF MlirInv, ReturnedMeans, ToSet
    <2> QED
      BY <2>3, <2>4 DEF Sorted
  <1> QED
    BY <1>1, MlirInvAlways, PTL

\* No graph that is well-formed by ONNX's rules of ranks is refused, and no emitter
\* reads a dimension that its operand does not have.
THEOREM WellFormedAlwaysCompiles == Spec => []WellFormedCompiles
  <1>1. MlirInv => WellFormedCompiles
    BY DEF MlirInv, WellFormedGoesOn, WellFormedCompiles
  <1> QED
    BY <1>1, MlirInvAlways, PTL

=============================================================================
