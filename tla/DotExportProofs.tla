--------------------------- MODULE DotExportProofs ---------------------------
(***************************************************************************)
(* What holds of the dot file for every graph that GraphBuilder can reach, *)
(* whatever dot_id makes of names.                                         *)
(***************************************************************************)
EXTENDS DotExport, TensorGraphProofs

-----------------------------------------------------------------------------
(* Flags and lists *)

\* A flag is set together with an entry in the list of some builder.
FlagsListed == \A role \in Roles : \A v \in flagged[role] :
    \E b \in Builders : v \in Elems(listed[role][b])

LEMMA FlagsStep ==
    ASSUME TypeOK, FlagsListed, [Next]_vars
    PROVE  FlagsListed'
  <1>1. CASE UNCHANGED marks
    BY <1>1 DEF FlagsListed, marks
  <1>2. ASSUME NEW b \in Builders, NEW role \in Roles, NEW v \in Argument, MarkAs(role, b, v),
               v # Null
        PROVE  FlagsListed'
    <2> DEFINE old == listed[role][b]
               new == IF v \in Elems(old) THEN old ELSE Append(old, v)
    <2>1. /\ listed' = [listed EXCEPT ![role][b] = new]
          /\ flagged' = [flagged EXCEPT ![role] = @ \cup {v}]
      BY <1>2 DEF MarkAs, mark_as
    <2>2. /\ listed'[role][b] = new
          /\ \A r \in Roles, c \in Builders : r # role \/ c # b => listed'[r][c] = listed[r][c]
          /\ \A r \in Roles : r # role => flagged'[r] = flagged[r]
          /\ flagged'[role] = flagged[role] \cup {v}
      BY <2>1 DEF TypeOK
    <2>3. Elems(new) = Elems(old) \cup {v}
      <3>1. old \in Seq(Value) /\ v \in Value
        BY <1>2 DEF TypeOK, Argument
      <3>2. Elems(Append(old, v)) = Elems(old) \cup {v}
        BY <3>1, AppendFacts
      <3> QED
        BY <3>2
    <2> HIDE DEF new
    <2>4. \A r \in Roles, c \in Builders : Elems(listed[r][c]) \subseteq Elems(listed'[r][c])
      BY <2>2, <2>3
    <2> QED
      BY <2>2, <2>3, <2>4 DEF FlagsListed
  <1> QED
    BY <1>1, <1>2 DEF Next, vars, marks, GetOrCreateValue, MarkAs, mark_as, AddNodeRejected, AddNode

LEMMA FlagsAlwaysListed == Spec => [](TypeOK /\ FlagsListed)
  <1>1. Init => TypeOK /\ FlagsListed
    BY DEF Init, TypeOK, FlagsListed
  <1>2. TypeOK /\ FlagsListed /\ [Next]_vars => (TypeOK /\ FlagsListed)'
    BY TypeStep, FlagsStep
  <1> QED
    BY <1>1, <1>2, PTL DEF Spec

\* Where verify() accepts every builder, the values a builder lists are its own flagged
\* ones, and the nodes' arguments are its own values with links both ways.
LEMMA VerifiedGraph ==
    ASSUME TypeOK, FlagsListed, AllVerified, NEW b \in Builders
    PROVE  /\ \A role \in Roles, v \in Owned(b) : v \in flagged[role] <=> v \in Elems(listed[role][b])
           /\ \A role \in Roles : Elems(listed[role][b]) \subseteq Owned(b)
           /\ \A n \in NodesOf(b) :
                /\ \A v \in Elems(NodeAt(n).inputs)  : v \in Owned(b) /\ n \in consumers[v]
                /\ \A v \in Elems(NodeAt(n).outputs) : v \in Owned(b) /\ producer[v] = n
           /\ \A v \in Owned(b) :
                /\ producer[v] # Null => /\ producer[v] \in NodesOf(b)
                                         /\ v \in Elems(NodeAt(producer[v]).outputs)
                /\ \A n \in consumers[v] : n \in NodesOf(b) /\ v \in Elems(NodeAt(n).inputs)
  <1>1. \A c \in Builders, role \in Roles : \A v \in Elems(listed[role][c]) :
            v \in Owned(c) /\ v \in flagged[role]
    BY DEF AllVerified, verify, verify_marks, Elems
  <1>2. \A c \in Builders : \A v \in Owned(c) : v[1] = c
    BY DEF Owned
  <1>3. \A role \in Roles, v \in Owned(b) : v \in flagged[role] => v \in Elems(listed[role][b])
    BY <1>1, <1>2 DEF FlagsListed
  <1>4. verify_nodes_consistency(b) /\ verify_values_consistency(b)
    BY DEF AllVerified, verify
  <1> QED
    BY <1>1, <1>3, <1>4 DEF verify_nodes_consistency, verify_values_consistency

-----------------------------------------------------------------------------
(* Edges *)

\* The edges of inputs, pair by pair: a node and one of its inputs that is drawn.
LEMMA InputEdges ==
    ASSUME NEW b \in Builders, NEW n \in NodesOf(b)
    PROVE  /\ \A e \in input_edges(b, n) : \E v \in Elems(NodeAt(n).inputs) :
                /\ v[2] \notin collect_init_names(b) /\ (v \in flagged[Input] \/ producer[v] # Null)
                /\ e.src = Source(v) /\ e.dst = IdOf("node", NodeName(n)) /\ e.node = n /\ e.value = v
           /\ \A v \in Elems(NodeAt(n).inputs) :
                v[2] \notin collect_init_names(b) /\ (v \in flagged[Input] \/ producer[v] # Null) =>
                    \E e \in input_edges(b, n) : /\ e.src = Source(v) /\ e.dst = IdOf("node", NodeName(n))
                                                 /\ e.node = n /\ e.value = v
  <1> DEFINE ins == NodeAt(n).inputs
             drawn == {j \in DOMAIN ins : /\ ins[j][2] \notin collect_init_names(b)
                                          /\ ins[j] \in flagged[Input] \/ producer[ins[j]] # Null}
             edge(i) == Edge(Source(ins[i]), IdOf("node", NodeName(n)), n, i, ins[i])
  <1>1. input_edges(b, n) = {edge(i) : i \in drawn}
    BY DEF input_edges
  <1>2. \A i : /\ edge(i).src = Source(ins[i]) /\ edge(i).dst = IdOf("node", NodeName(n))
               /\ edge(i).node = n /\ edge(i).value = ins[i]
    BY DEF Edge
  <1> HIDE DEF edge
  <1> QED
    BY <1>1, <1>2 DEF Elems

LEMMA OutputEdges ==
    ASSUME NEW b \in Builders, NEW n \in NodesOf(b)
    PROVE  /\ \A e \in output_edges(n) : \E v \in Elems(NodeAt(n).outputs) :
                /\ v \in flagged[Output] /\ e.node = n /\ e.value = v
                /\ e.src = IdOf("node", NodeName(n)) /\ e.dst = IdOf("output", v[2])
           /\ \A v \in Elems(NodeAt(n).outputs) : v \in flagged[Output] =>
                \E e \in output_edges(n) : /\ e.src = IdOf("node", NodeName(n)) /\ e.dst = IdOf("output", v[2])
                                           /\ e.node = n /\ e.value = v
  <1> DEFINE outs == NodeAt(n).outputs
             edge(i) == Edge(IdOf("node", NodeName(n)), IdOf("output", outs[i][2]), n, i, outs[i])
  <1>1. output_edges(n) = {edge(i) : i \in {j \in DOMAIN outs : outs[j] \in flagged[Output]}}
    BY DEF output_edges
  <1>2. \A i : /\ edge(i).src = IdOf("node", NodeName(n)) /\ edge(i).dst = IdOf("output", outs[i][2])
               /\ edge(i).node = n /\ edge(i).value = outs[i]
    BY DEF Edge
  <1> HIDE DEF edge
  <1> QED
    BY <1>1, <1>2 DEF Elems

\* Every edge joins two vertices that are written.
THEOREM EdgesNeverDangle == Spec => []NoDanglingEdge
  <1>1. TypeOK /\ FlagsListed => NoDanglingEdge
    <2> SUFFICES ASSUME TypeOK, FlagsListed, AllVerified, NEW b \in Builders, NEW e \in emit_edges(b)
                 PROVE  e.src \in Vertices(b) /\ e.dst \in Vertices(b)
      BY DEF NoDanglingEdge
    <2>1. Input \in Roles /\ Output \in Roles
      BY RoleAssumption
    <2>2. \A m \in NodesOf(b) : IdOf("node", NodeName(m)) \in Vertices(b)
      <3> DEFINE stmt(m) == [id |-> IdOf("node", NodeName(m)), node |-> m,
                             rows |-> build_init_map(b, NodeName(m))]
      <3>1. emit_nodes(b) = {stmt(m) : m \in NodesOf(b)}
        BY DEF emit_nodes
      <3>2. \A m : stmt(m).id = IdOf("node", NodeName(m))
        OBVIOUS
      <3> HIDE DEF stmt
      <3> QED
        BY <3>1, <3>2 DEF Vertices
    <2>3. /\ \A v \in Elems(listed[Input][b])  : IdOf("input", v[2])  \in Vertices(b)
          /\ \A v \in Elems(listed[Output][b]) : IdOf("output", v[2]) \in Vertices(b)
      BY DEF Vertices, emit_graph_inputs, emit_graph_outputs
    <2>4. PICK n \in NodesOf(b) : e \in input_edges(b, n) \cup output_edges(n)
      BY DEF emit_edges
    <2>5. CASE e \in input_edges(b, n)
      <3>1. PICK v \in Elems(NodeAt(n).inputs) :
                /\ v \in flagged[Input] \/ producer[v] # Null
                /\ e.src = Source(v) /\ e.dst = IdOf("node", NodeName(n))
        BY <2>5, InputEdges
      <3>2. Source(v) \in Vertices(b)
        <4>1. CASE v \in flagged[Input]
          BY <2>1, <2>3, <4>1, VerifiedGraph DEF Source
        <4>2. CASE v \notin flagged[Input]
          BY <2>2, <3>1, <4>2, VerifiedGraph DEF Source
        <4> QED
          BY <4>1, <4>2
      <3> QED
        BY <2>2, <3>1, <3>2
    <2>6. CASE e \in output_edges(n)
      <3>1. PICK v \in Elems(NodeAt(n).outputs) :
                v \in flagged[Output] /\ e.src = IdOf("node", NodeName(n)) /\ e.dst = IdOf("output", v[2])
        BY <2>6, OutputEdges
      <3>2. v \in Elems(listed[Output][b])
        BY <2>1, <3>1, VerifiedGraph
      <3> QED
        BY <2>2, <2>3, <3>1, <3>2
    <2> QED
      BY <2>4, <2>5, <2>6
  <1> QED
    BY <1>1, FlagsAlwaysListed, PTL

\* An input of a node is left out exactly when it is an initializer: the code compares
\* names, and verify() makes sure that a builder's names are its values.
LEMMA DrawnInputs ==
    ASSUME TypeOK, FlagsListed, AllVerified, NEW b \in Builders, NEW v \in Owned(b)
    PROVE  v[2] \in collect_init_names(b) <=> v \in flagged[Initializer]
  <1>1. Initializer \in Roles
    BY RoleAssumption
  <1>2. \A w \in Elems(listed[Initializer][b]) : w \in Owned(b) /\ (w[2] = v[2] => w = v)
    BY <1>1, VerifiedGraph DEF Owned
  <1>3. v \in flagged[Initializer] <=> v \in Elems(listed[Initializer][b])
    BY <1>1, VerifiedGraph
  <1> QED
    BY <1>2, <1>3 DEF collect_init_names

\* The edges of the picture are the links that the values record.
THEOREM EdgesAlwaysLinks == Spec => []EdgesAreLinks
  <1>1. TypeOK /\ FlagsListed => EdgesAreLinks
    <2> SUFFICES ASSUME TypeOK, FlagsListed, AllVerified, NEW b \in Builders, NoShadowing(b)
                 PROVE  LET Id(n) == IdOf("node", NodeName(n))
                            Drawn == {v \in Owned(b) : v \notin flagged[Initializer]}
                            Inner == UNION {{<<Id(producer[v]), Id(n), n, v>> : n \in consumers[v]} :
                                                v \in {w \in Drawn : producer[w] # Null}}
                            Entry == UNION {{<<IdOf("input", v[2]), Id(n), n, v>> : n \in consumers[v]} :
                                                v \in Drawn \cap Elems(listed[Input][b])}
                            Exit  == {<<Id(producer[v]), IdOf("output", v[2]), producer[v], v>> :
                                                v \in {w \in Elems(listed[Output][b]) : producer[w] # Null}}
                        IN  {<<e.src, e.dst, e.node, e.value>> : e \in emit_edges(b)} = Inner \cup Entry \cup Exit
      BY DEF EdgesAreLinks
    <2> DEFINE Id(n)   == IdOf("node", NodeName(n))
               In(v)   == IdOf("input", v[2])
               Out(v)  == IdOf("output", v[2])
               Drawn   == {v \in Owned(b) : v \notin flagged[Initializer]}
               Lines   == {<<e.src, e.dst, e.node, e.value>> : e \in emit_edges(b)}
               Inner   == UNION {{<<Id(producer[v]), Id(n), n, v>> : n \in consumers[v]} :
                                        v \in {w \in Drawn : producer[w] # Null}}
               Entry   == UNION {{<<In(v), Id(n), n, v>> : n \in consumers[v]} :
                                        v \in Drawn \cap Elems(listed[Input][b])}
               Exit    == {<<Id(producer[v]), Out(v), producer[v], v>> :
                                        v \in {w \in Elems(listed[Output][b]) : producer[w] # Null}}
    <2> HIDE DEF Id, In, Out
    <2>1. /\ \A n \in NodesOf(b) : /\ \A v \in Elems(NodeAt(n).inputs)  : v \in Owned(b) /\ n \in consumers[v]
                                   /\ \A v \in Elems(NodeAt(n).outputs) : v \in Owned(b) /\ producer[v] = n
          /\ \A v \in Owned(b) :
                /\ v \in flagged[Input]  <=> v \in Elems(listed[Input][b])
                /\ v \in flagged[Output] <=> v \in Elems(listed[Output][b])
                /\ v[2] \in collect_init_names(b) <=> v \in flagged[Initializer]
                /\ producer[v] # Null => /\ producer[v] \in NodesOf(b)
                                         /\ v \in Elems(NodeAt(producer[v]).outputs)
                                         /\ v \notin flagged[Input]
                /\ \A n \in consumers[v] : n \in NodesOf(b) /\ v \in Elems(NodeAt(n).inputs)
          /\ Elems(listed[Output][b]) \subseteq Owned(b)
      BY RoleAssumption, VerifiedGraph, DrawnInputs DEF NoShadowing
    <2>2. \A v : Source(v) = IF v \in flagged[Input] THEN In(v) ELSE Id(producer[v])
      BY DEF Source, In, Id
    <2>3. \A n \in NodesOf(b) :
            /\ \A e \in input_edges(b, n) : \E v \in Elems(NodeAt(n).inputs) :
                  /\ v[2] \notin collect_init_names(b) /\ (v \in flagged[Input] \/ producer[v] # Null)
                  /\ e.src = Source(v) /\ e.dst = Id(n) /\ e.node = n /\ e.value = v
            /\ \A v \in Elems(NodeAt(n).inputs) :
                  v[2] \notin collect_init_names(b) /\ (v \in flagged[Input] \/ producer[v] # Null) =>
                      \E e \in input_edges(b, n) : e.src = Source(v) /\ e.dst = Id(n) /\ e.node = n /\ e.value = v
            /\ \A e \in output_edges(n) : \E v \in Elems(NodeAt(n).outputs) :
                  v \in flagged[Output] /\ e.src = Id(n) /\ e.dst = Out(v) /\ e.node = n /\ e.value = v
            /\ \A v \in Elems(NodeAt(n).outputs) : v \in flagged[Output] =>
                  \E e \in output_edges(n) : e.src = Id(n) /\ e.dst = Out(v) /\ e.node = n /\ e.value = v
      BY InputEdges, OutputEdges DEF Id, Out
    <2>4. \A e : e \in emit_edges(b) <=>
                \E n \in NodesOf(b) : e \in input_edges(b, n) \/ e \in output_edges(n)
      BY DEF emit_edges
    <2>5. \A v \in Drawn : v \in Owned(b) /\ v \notin flagged[Initializer]
      OBVIOUS
    <2>6. Lines \subseteq Inner \cup Entry \cup Exit
      <3> SUFFICES ASSUME NEW e \in emit_edges(b)
                   PROVE  <<e.src, e.dst, e.node, e.value>> \in Inner \cup Entry \cup Exit
        OBVIOUS
      <3>1. PICK n \in NodesOf(b) : e \in input_edges(b, n) \/ e \in output_edges(n)
        BY <2>4
      <3>2. CASE e \in input_edges(b, n)
        <4>1. PICK v \in Elems(NodeAt(n).inputs) :
                  /\ v[2] \notin collect_init_names(b) /\ (v \in flagged[Input] \/ producer[v] # Null)
                  /\ e.src = Source(v) /\ e.dst = Id(n) /\ e.node = n /\ e.value = v
          BY <2>3, <3>2
        <4>2. v \in Owned(b) /\ n \in consumers[v] /\ v \in Drawn
          BY <2>1, <4>1
        <4>3. CASE v \in flagged[Input]
          BY <2>1, <2>2, <4>1, <4>2, <4>3
        <4>4. CASE v \notin flagged[Input]
          BY <2>2, <4>1, <4>2, <4>4
        <4> QED
          BY <4>3, <4>4
      <3>3. CASE e \in output_edges(n)
        <4>1. PICK v \in Elems(NodeAt(n).outputs) :
                  v \in flagged[Output] /\ e.src = Id(n) /\ e.dst = Out(v) /\ e.node = n /\ e.value = v
          BY <2>3, <3>3
        <4>2. v \in Elems(listed[Output][b]) /\ producer[v] = n /\ producer[v] # Null
          <5>1. n \in Node
            BY NodePointers DEF TypeOK, NodesOf, NodeLists
          <5> QED
            BY <2>1, <4>1, <5>1, NullAssumption
        <4> QED
          BY <4>1, <4>2
      <3> QED
        BY <3>1, <3>2, <3>3
    <2>7. Inner \subseteq Lines
      <3> SUFFICES ASSUME NEW v \in Drawn, producer[v] # Null, NEW n \in consumers[v]
                   PROVE  <<Id(producer[v]), Id(n), n, v>> \in Lines
        OBVIOUS
      <3>1. /\ n \in NodesOf(b) /\ v \in Elems(NodeAt(n).inputs)
            /\ v \notin flagged[Input] /\ v[2] \notin collect_init_names(b)
        BY <2>1, <2>5
      <3>2. PICK e \in input_edges(b, n) : e.src = Source(v) /\ e.dst = Id(n) /\ e.node = n /\ e.value = v
        BY <2>3, <3>1
      <3> QED
        BY <2>2, <2>4, <3>1, <3>2
    <2>8. Entry \subseteq Lines
      <3> SUFFICES ASSUME NEW v \in Drawn, v \in Elems(listed[Input][b]), NEW n \in consumers[v]
                   PROVE  <<In(v), Id(n), n, v>> \in Lines
        OBVIOUS
      <3>1. /\ n \in NodesOf(b) /\ v \in Elems(NodeAt(n).inputs)
            /\ v \in flagged[Input] /\ v[2] \notin collect_init_names(b)
        BY <2>1, <2>5
      <3>2. PICK e \in input_edges(b, n) : e.src = Source(v) /\ e.dst = Id(n) /\ e.node = n /\ e.value = v
        BY <2>3, <3>1
      <3> QED
        BY <2>2, <2>4, <3>1, <3>2
    <2>9. Exit \subseteq Lines
      <3> SUFFICES ASSUME NEW v \in Elems(listed[Output][b]), producer[v] # Null
                   PROVE  <<Id(producer[v]), Out(v), producer[v], v>> \in Lines
        OBVIOUS
      <3>1. producer[v] \in NodesOf(b) /\ v \in Elems(NodeAt(producer[v]).outputs) /\ v \in flagged[Output]
        BY <2>1
      <3>2. PICK e \in output_edges(producer[v]) : /\ e.src = Id(producer[v]) /\ e.dst = Out(v)
                                                         /\ e.node = producer[v] /\ e.value = v
        BY <2>3, <3>1
      <3> QED
        BY <2>4, <3>1, <3>2
    <2> QED
      BY <2>6, <2>7, <2>8, <2>9 DEF Id, In, Out
  <1> QED
    BY <1>1, FlagsAlwaysListed, PTL

-----------------------------------------------------------------------------
(* Rows *)

\* The rows inside a vertex are the initializers that record the node as their consumer.
THEOREM RowsAlwaysOwn == Spec => []RowsAreOwn
  <1>1. TypeOK /\ FlagsListed => RowsAreOwn
    <2> SUFFICES ASSUME TypeOK, FlagsListed, AllVerified, NEW b \in Builders, NEW n \in NodesOf(b),
                        \A m \in NodesOf(b) : NodeName(m) = NodeName(n) => m = n
                 PROVE  build_init_map(b, NodeName(n))
                            = {v \in Elems(listed[Initializer][b]) : n \in consumers[v]}
      BY DEF RowsAreOwn, emit_nodes
    <2> DEFINE Inits(m) == {v \in Elems(NodeAt(m).inputs) : v \in flagged[Initializer]}
               Named    == {m \in NodesOf(b) : NodeName(m) = NodeName(n) /\ Inits(m) # {}}
               Last     == CHOOSE m \in Named : \A k \in Named : k[2] <= m[2]
    <2>1. Inits(n) = {v \in Elems(listed[Initializer][b]) : n \in consumers[v]}
      BY RoleAssumption, VerifiedGraph
    <2>2. build_init_map(b, NodeName(n)) = IF Named = {} THEN {} ELSE Inits(Last)
      BY DEF build_init_map
    <2>3. Named = IF Inits(n) = {} THEN {} ELSE {n}
      OBVIOUS
    <2>4. CASE Inits(n) = {}
      BY <2>1, <2>2, <2>3, <2>4
    <2>5. CASE Inits(n) # {}
      <3>1. n[2] \in Nat
        BY DEF NodesOf, TypeOK
      <3>2. Last = n
        BY <2>3, <2>5, <3>1
      <3> QED
        BY <2>1, <2>2, <2>3, <2>5, <3>2
    <2> QED
      BY <2>4, <2>5
  <1> QED
    BY <1>1, FlagsAlwaysListed, PTL

=============================================================================
