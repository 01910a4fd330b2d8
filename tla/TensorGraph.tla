---------------------------- MODULE TensorGraph ----------------------------
(***************************************************************************)
(* The graph of values and nodes that tc::GraphBuilder owns                *)
(* (include/graph/graph_builder.hpp, value.hpp, node.hpp) and the          *)
(* consistency check GraphBuilder::verify (src/graph/verify_graph.cpp).    *)
(*                                                                         *)
(* The public operations take raw Value* and never ask who owns them, so   *)
(* the state is the memory of a set of builders and a call on one builder  *)
(* may be given a value of another.                                        *)
(*                                                                         *)
(* A Value* is the pair <<owner, name>>: get_or_create_value is the only   *)
(* place that makes a Value, it makes at most one for each name and none   *)
(* is ever freed while its builder lives.  A Node* is the pair             *)
(* <<owner, position in nodes_>>.  One variable, values_, stands for both  *)
(* values_ and value_map_, which change together and nowhere else.         *)
(***************************************************************************)
EXTENDS Naturals, Sequences

CONSTANTS
    Builders,    \* the GraphBuilder objects alive in the process
    Names,       \* value names
    NodeNames,   \* the node names callers choose
    Unnamed,     \* the empty node name: add_node makes one up
    Roles,       \* the three ways to mark a value: input, output, initializer
    Null,        \* nullptr
    MaxNodes,    \* bound: nodes of one builder
    MaxInputs,   \* bound: length of a node's input list
    MaxOutputs   \* bound: length of a node's output list

Value == Builders \X Names
Node  == Builders \X (Nat \ {0})

\* "n" + std::to_string(k).  A caller may choose the same string: NodeNames may
\* contain some of these.
AutoName(k) == <<"n", k>>
AutoNames == {"n"} \X Nat

ASSUME NameAssumption  == Unnamed \notin NodeNames
ASSUME NullAssumption  == Null \notin Value /\ Null \notin Node
ASSUME BoundAssumption == MaxNodes \in Nat /\ MaxInputs \in Nat /\ MaxOutputs \in Nat

VARIABLES
    values_,     \* values_[b]: names of the values that b owns
    nodes_,      \* nodes_[b]: the nodes b owns, oldest first
    producer,    \* producer[v]: the node that v records as its producer, or Null
    consumers,   \* consumers[v]: the nodes that v records as its consumers.  The
                 \* code's vector is in order of creation, one entry per input slot
    listed,      \* listed[r][b]: graph_inputs_, graph_outputs_, graph_initializers_ of b
    flagged,     \* flagged[r]: the values whose is_graph_input_, ... is true
    auto_node_counter_,   \* how many names each builder has made up
    damaged      \* history: the builders that some call has left in a state that
                 \* no graph of theirs can justify; the code has no such record

vars == <<values_, nodes_, producer, consumers, listed, flagged,
          auto_node_counter_, damaged>>
links == <<nodes_, producer, consumers, auto_node_counter_>>
marks == <<listed, flagged>>

-----------------------------------------------------------------------------
(* Helpers *)

Elems(s) == {s[i] : i \in DOMAIN s}
ListsUpTo(S, n) == UNION {[1 .. k -> S] : k \in 0 .. n}

Owned(b)  == {b} \X values_[b]
Exists(v) == v[2] \in values_[v[1]]
NodeAt(n) == nodes_[n[1]][n[2]]
IsNode(n) == n[2] \in DOMAIN nodes_[n[1]]
NodesOf(b) == {b} \X DOMAIN nodes_[b]

\* What a caller can pass: nullptr or a value some builder has handed out.
Argument == {v \in Value : Exists(v)} \cup {Null}

-----------------------------------------------------------------------------
(* The operations.  Each one states the change of the variables it writes, *)
(* so that a caller can be written as a conjunction of them.               *)
(*                                                                         *)
(* A definition called ..._bug is a slip one could make in the definition  *)
(* it precedes; it is used nowhere and serves to see a property fail.      *)

\* find_value: looks the name up in value_map_.
find_value(b, name) == IF name \in values_[b] THEN <<b, name>> ELSE Null

\* get_or_create_value: an existing value is returned as it is.
get_or_create_value(b, name) ==
    values_' = [values_ EXCEPT ![b] = @ \cup {name}]

\* mark_as_input, mark_as_output and mark_as_initializer: the flag lives in the
\* value, the list in the builder; a value is listed once.
mark_as(role, b, v) ==
    IF v = Null
    THEN UNCHANGED marks
    ELSE /\ flagged' = [flagged EXCEPT ![role] = @ \cup {v}]
         /\ listed'  = [listed EXCEPT ![role][b] =
                            IF v \in Elems(@) THEN @ ELSE Append(@, v)]

\* Only repetitions in the list are refused.
Taken_bug(outs, i) == \E k \in 1 .. i - 1 : outs[k] = outs[i]

\* outs[i] already has a producer when add_node's second loop reaches it.
Taken(outs, i) == \/ producer[outs[i]] # Null
                  \/ \E k \in 1 .. i - 1 : outs[k] = outs[i]

\* The loop links the outputs before the first taken one, then throws.
Throws(outs) == \E i \in DOMAIN outs : Taken(outs, i)
Linked_bug(outs) == {outs[j] : j \in DOMAIN outs}   \* set_producer without a check
Linked(outs) == {outs[j] : j \in {k \in DOMAIN outs : \A i \in 1 .. k : ~Taken(outs, i)}}

\* The node's name: the caller's, or a fresh one.
NameFor_bug(b, name) == name
NameFor(b, name) == IF name = Unnamed THEN AutoName(auto_node_counter_[b]) ELSE name

\* A throw comes before the node is appended, but after the inputs have learnt of it.
add_node_bug1(b, name, ins, outs) ==
    LET node == <<b, Len(nodes_[b]) + 1>>
    IN  /\ UNCHANGED <<auto_node_counter_, producer>>
        /\ nodes_' = IF Throws(outs) THEN nodes_ ELSE [nodes_ EXCEPT ![b] = Append(@,
                         [name |-> NameFor(b, name), inputs |-> ins, outputs |-> outs])]
        /\ consumers' = [v \in Value |-> IF v \in Elems(ins) THEN consumers[v] \cup {node}
                                                             ELSE consumers[v]]

\* The counter advances at the end of the call, which a throw does not reach.
add_node_bug2(b, name, ins, outs) ==
    LET node == <<b, Len(nodes_[b]) + 1>>
    IN  /\ auto_node_counter_' = [auto_node_counter_ EXCEPT
                                      ![b] = IF name = Unnamed /\ ~Throws(outs) THEN @ + 1 ELSE @]
        /\ nodes_' = [nodes_ EXCEPT ![b] = Append(@,
                         [name |-> NameFor(b, name), inputs |-> ins, outputs |-> outs])]
        /\ consumers' = [v \in Value |-> IF v \in Elems(ins) THEN consumers[v] \cup {node}
                                                             ELSE consumers[v]]
        /\ producer' = [v \in Value |-> IF v \in Linked(outs) THEN node ELSE producer[v]]

\* add_node after its null checks: the node is appended, then every input learns
\* of it, then the outputs are linked one by one; nothing is undone on a throw.
add_node(b, name, ins, outs) ==
    LET node == <<b, Len(nodes_[b]) + 1>>
    IN  /\ auto_node_counter_' = [auto_node_counter_ EXCEPT
                                      ![b] = IF name = Unnamed THEN @ + 1 ELSE @]
        /\ nodes_' = [nodes_ EXCEPT ![b] = Append(@,
                         [name |-> NameFor(b, name), inputs |-> ins, outputs |-> outs])]
        /\ consumers' = [v \in Value |-> IF v \in Elems(ins) THEN consumers[v] \cup {node}
                                                             ELSE consumers[v]]
        /\ producer' = [v \in Value |-> IF v \in Linked(outs) THEN node ELSE producer[v]]

-----------------------------------------------------------------------------
(* verify: five checks.  verify_unique_value_names and                     *)
(* verify_value_map_consistency compare values_ with value_map_, which are *)
(* one variable here, and cannot fail.                                     *)

\* Nodes are compared by position, not by address.
verify_values_consistency_bug(b) ==
    \A v \in Owned(b) :
        /\ producer[v] # Null => /\ producer[v][2] \in DOMAIN nodes_[b]
                                 /\ v \in Elems(NodeAt(producer[v]).outputs)
        /\ \A n \in consumers[v] : n[2] \in DOMAIN nodes_[b] /\ v \in Elems(NodeAt(n).inputs)

verify_values_consistency(b) ==
    \A v \in Owned(b) :
        /\ producer[v] # Null => /\ producer[v] \in NodesOf(b)
                                 /\ v \in Elems(NodeAt(producer[v]).outputs)
        /\ \A n \in consumers[v] : n \in NodesOf(b) /\ v \in Elems(NodeAt(n).inputs)

\* The back link of the outputs, or the owner of the values, is not looked at.
verify_nodes_consistency_bug1(b) ==
    \A n \in NodesOf(b) :
        /\ \A v \in Elems(NodeAt(n).inputs)  : v \in Owned(b) /\ n \in consumers[v]
        /\ \A v \in Elems(NodeAt(n).outputs) : v \in Owned(b)
verify_nodes_consistency_bug2(b) ==
    \A n \in NodesOf(b) :
        /\ \A v \in Elems(NodeAt(n).inputs)  : n \in consumers[v]
        /\ \A v \in Elems(NodeAt(n).outputs) : producer[v] = n

verify_nodes_consistency(b) ==
    \A n \in NodesOf(b) :
        /\ \A v \in Elems(NodeAt(n).inputs)  : v \in Owned(b) /\ n \in consumers[v]
        /\ \A v \in Elems(NodeAt(n).outputs) : v \in Owned(b) /\ producer[v] = n

\* verify_graph_inputs, verify_graph_outputs and verify_graph_initializers.
verify_marks(role, b) ==
    LET list == listed[role][b]
    IN  /\ \A i \in DOMAIN list : list[i] \in Owned(b) /\ list[i] \in flagged[role]
        /\ \A i, j \in DOMAIN list : list[i] = list[j] => i = j

verify(b) == /\ verify_values_consistency(b)
             /\ verify_nodes_consistency(b)
             /\ \A role \in Roles : verify_marks(role, b)

-----------------------------------------------------------------------------
Init == /\ values_   = [b \in Builders |-> {}]
        /\ nodes_    = [b \in Builders |-> << >>]
        /\ producer  = [v \in Value |-> Null]
        /\ consumers = [v \in Value |-> {}]
        /\ listed    = [r \in Roles |-> [b \in Builders |-> << >>]]
        /\ flagged   = [r \in Roles |-> {}]
        /\ auto_node_counter_ = [b \in Builders |-> 0]
        /\ damaged   = {}

GetOrCreateValue(b, name) ==
    /\ get_or_create_value(b, name)
    /\ UNCHANGED <<links, marks, damaged>>

\* Marking another builder's value puts a foreign pointer in b's list.
MarkAs(role, b, v) ==
    /\ mark_as(role, b, v)
    /\ damaged' = IF v = Null \/ v[1] = b THEN damaged ELSE damaged \cup {b}
    /\ UNCHANGED <<values_, links>>

\* Which builders a call of add_node harms: b when a value is foreign or an output
\* is left unlinked (one repeated within the list was linked the first time), and
\* the owner of each foreign value that was told of the node.
Harmed(b, ins, outs) ==
    LET told == Elems(ins) \cup Linked(outs)
    IN  ({v[1] : v \in told} \ {b}) \cup
        {c \in {b} : \/ \E v \in Elems(ins) \cup Elems(outs) : v[1] # b
                     \/ ~(Elems(outs) \subseteq Linked(outs))}

\* A nullptr in either list is refused before anything is written.
AddNodeRejected(b, ins, outs) ==
    /\ Null \in Elems(ins) \cup Elems(outs)
    /\ UNCHANGED vars

AddNode(b, name, ins, outs) ==
    /\ Null \notin Elems(ins) \cup Elems(outs)
    /\ Len(nodes_[b]) < MaxNodes
    /\ add_node(b, name, ins, outs)
    /\ damaged' = damaged \cup Harmed(b, ins, outs)
    /\ UNCHANGED <<values_, marks>>

Next == \E b \in Builders :
    \/ \E name \in Names : GetOrCreateValue(b, name)
    \/ \E role \in Roles, v \in Argument : MarkAs(role, b, v)
    \/ \E ins \in ListsUpTo(Argument, MaxInputs), outs \in ListsUpTo(Argument, MaxOutputs) :
          \/ AddNodeRejected(b, ins, outs)
          \/ \E name \in NodeNames \cup {Unnamed} : AddNode(b, name, ins, outs)

Spec == Init /\ [][Next]_vars

-----------------------------------------------------------------------------
(* Properties *)

NodeRecord == [name : NodeNames \cup AutoNames,
               inputs : Seq(Value), outputs : Seq(Value)]

\* Every variable has the type of the member it stands for.
TypeOK ==
    /\ values_   \in [Builders -> SUBSET Names]
    /\ nodes_    \in [Builders -> Seq(NodeRecord)]
    /\ producer  \in [Value -> Node \cup {Null}]
    /\ consumers \in [Value -> SUBSET Node]
    /\ listed    \in [Roles -> [Builders -> Seq(Value)]]
    /\ flagged   \in [Roles -> SUBSET Value]
    /\ auto_node_counter_ \in [Builders -> Nat]
    /\ damaged   \subseteq Builders

\* A link that a value records is backed by the node it names, whichever builder
\* owns it and however the add_node call that made the node ended; and every
\* node is known to all its inputs.  Only an output may be missing its link.
LinksMirrored ==
    /\ \A v \in Value :
        /\ producer[v] # Null => IsNode(producer[v]) /\ v \in Elems(NodeAt(producer[v]).outputs)
        /\ \A n \in consumers[v] : IsNode(n) /\ v \in Elems(NodeAt(n).inputs)
    /\ \A b \in Builders : \A n \in NodesOf(b) :
        \A v \in Elems(NodeAt(n).inputs) : n \in consumers[v]

\* verify() throws for exactly the builders harmed by some earlier call: by an
\* add_node that threw half way (unless the only trouble was an output repeated
\* in one list), or by a pointer that crossed from one builder to another.
VerifyIsExact == \A b \in Builders : verify(b) <=> b \notin damaged

\* Two nodes of a builder share a name only if a caller chose that name: the
\* counter behind the made-up names never repeats, failed calls included.
ClashIsExplicit ==
    \A b \in Builders : \A i, j \in DOMAIN nodes_[b] :
        i # j /\ nodes_[b][i].name = nodes_[b][j].name => nodes_[b][i].name \in NodeNames

\* No call gives a value that has a producer another one, or takes it away.
ProducerIsFinal ==
    [][\A v \in Value : producer[v] # Null => producer'[v] = producer[v]]_vars

\* No call repairs a graph: once verify() throws for a builder it always will.
DamageIsFinal == [][\A b \in Builders : ~verify(b) => ~verify(b)']_vars

=============================================================================
