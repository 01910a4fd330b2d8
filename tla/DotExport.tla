----------------------------- MODULE DotExport -----------------------------
(***************************************************************************)
(* dump_dot (src/graph/dot_export.cpp): the Graphviz statements written    *)
(* for the graph of a builder, in every state TensorGraph can reach.       *)
(*                                                                         *)
(* Vertices have ids: a prefix and the name with its special characters    *)
(* replaced.  Graphviz makes one vertex of all statements with the same    *)
(* id, and a bare one for an id that only occurs in edges.  Colours, fonts *)
(* and op types are left out.                                              *)
(*                                                                         *)
(* A definition called ..._bug is a slip one could make in the definition  *)
(* it precedes; it is used nowhere and serves to see a property fail.      *)
(***************************************************************************)
EXTENDS TensorGraph

CONSTANTS
    Input, Output, Initializer,   \* the three roles
    dot_id(_)                     \* the id of a name of a node or a value

ASSUME RoleAssumption == Roles = {Input, Output, Initializer}

IdOf(kind, name) == <<kind, dot_id(name)>>
NodeName(n) == NodeAt(n).name

-----------------------------------------------------------------------------
(* What is collected first *)

build_init_map_bug(b, name) ==      \* a row for every input
    LET Inits(n) == Elems(NodeAt(n).inputs)
        Named == {n \in NodesOf(b) : NodeName(n) = name /\ Inits(n) # {}}
    IN  IF Named = {} THEN {} ELSE Inits(CHOOSE n \in Named : \A m \in Named : m[2] <= n[2])

\* The initializers to show under a node name: those of the last node of that name that
\* has any.
build_init_map(b, name) ==
    LET Inits(n) == {v \in Elems(NodeAt(n).inputs) : v \in flagged[Initializer]}
        Named == {n \in NodesOf(b) : NodeName(n) = name /\ Inits(n) # {}}
    IN  IF Named = {} THEN {} ELSE Inits(CHOOSE n \in Named : \A m \in Named : m[2] <= n[2])

collect_init_names(b) == {v[2] : v \in Elems(listed[Initializer][b])}

-----------------------------------------------------------------------------
(* The statements: vertices, and edges with the slot they are written for *)

emit_graph_inputs(b)  == {IdOf("input", v[2])  : v \in Elems(listed[Input][b])}
emit_graph_outputs(b) == {IdOf("output", v[2]) : v \in Elems(listed[Output][b])}
emit_nodes(b) == {[id |-> IdOf("node", NodeName(n)), node |-> n,
                   rows |-> build_init_map(b, NodeName(n))] : n \in NodesOf(b)}
Vertices(b) == emit_graph_inputs(b) \cup emit_graph_outputs(b) \cup {s.id : s \in emit_nodes(b)}

Edge(src, dst, node, slot, v) == [src |-> src, dst |-> dst, node |-> node, slot |-> slot, value |-> v]

Source(v) == IF v \in flagged[Input] THEN IdOf("input", v[2]) ELSE IdOf("node", NodeName(producer[v]))

input_edges_bug(b, n) ==      \* break instead of continue at an initializer
    LET ins == NodeAt(n).inputs
    IN  {Edge(Source(ins[i]), IdOf("node", NodeName(n)), n, i, ins[i]) :
            i \in {j \in DOMAIN ins : /\ \A k \in 1 .. j : ins[k][2] \notin collect_init_names(b)
                                      /\ ins[j] \in flagged[Input] \/ producer[ins[j]] # Null}}

\* An input without producer that is not an input of the graph has no edge.
input_edges(b, n) ==
    LET ins == NodeAt(n).inputs
    IN  {Edge(Source(ins[i]), IdOf("node", NodeName(n)), n, i, ins[i]) :
            i \in {j \in DOMAIN ins : /\ ins[j][2] \notin collect_init_names(b)
                                      /\ ins[j] \in flagged[Input] \/ producer[ins[j]] # Null}}

output_edges_bug(n) ==      \* the flag is not looked at
    LET outs == NodeAt(n).outputs
    IN  {Edge(IdOf("node", NodeName(n)), IdOf("output", outs[i][2]), n, i, outs[i]) : i \in DOMAIN outs}
output_edges(n) ==
    LET outs == NodeAt(n).outputs
    IN  {Edge(IdOf("node", NodeName(n)), IdOf("output", outs[i][2]), n, i, outs[i]) :
            i \in {j \in DOMAIN outs : outs[j] \in flagged[Output]}}

emit_edges(b) == UNION {input_edges(b, n) \cup output_edges(n) : n \in NodesOf(b)}

-----------------------------------------------------------------------------
(* Properties *)

AllVerified == \A c \in Builders : verify(c)

\* No value that a node computes is an input or an initializer of the graph as well.
NoShadowing(b) == \A v \in Owned(b) :
    producer[v] # Null => v \notin flagged[Input] \cup flagged[Initializer]

\* Every edge joins two vertices that are written, whichever names clash and whichever
\* values are marked in several ways: Graphviz makes up no vertex.  The edges go by the
\* flags of the values and the vertices by the lists of the builder: verify() compares
\* the two.
NoDanglingEdge ==
    AllVerified => \A b \in Builders : \A e \in emit_edges(b) : {e.src, e.dst} \subseteq Vertices(b)

\* The picture is the graph: it has an edge for every value that a node computes and
\* another one consumes, for every input that a node consumes and every output that a node
\* computes, and no others.  Each is an edge of its own, also where dot_id gives two names
\* one id, between the ids of the very nodes and values that the graph links.
EdgesAreLinks ==
    AllVerified => \A b \in Builders : NoShadowing(b) =>
        LET Id(n) == IdOf("node", NodeName(n))
            Drawn == {v \in Owned(b) : v \notin flagged[Initializer]}
            Inner == UNION {{<<Id(producer[v]), Id(n), n, v>> : n \in consumers[v]} :
                                v \in {w \in Drawn : producer[w] # Null}}
            Entry == UNION {{<<IdOf("input", v[2]), Id(n), n, v>> : n \in consumers[v]} :
                                v \in Drawn \cap Elems(listed[Input][b])}
            Exit  == {<<Id(producer[v]), IdOf("output", v[2]), producer[v], v>> :
                                v \in {w \in Elems(listed[Output][b]) : producer[w] # Null}}
        IN  {<<e.src, e.dst, e.node, e.value>> : e \in emit_edges(b)} = Inner \cup Entry \cup Exit

\* The rows inside a node's vertex are the initializers that record the node as their
\* consumer, unless another node of the graph has the same name.
RowsAreOwn ==
    AllVerified => \A b \in Builders : \A s \in emit_nodes(b) :
        (\A m \in NodesOf(b) : NodeName(m) = NodeName(s.node) => m = s.node) =>
            s.rows = {v \in Elems(listed[Initializer][b]) : s.node \in consumers[v]}

=============================================================================
