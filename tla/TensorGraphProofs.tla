------------------------- MODULE TensorGraphProofs -------------------------
(***************************************************************************)
(* What holds of GraphBuilder for every set of builders, names, marks and  *)
(* every bound on the nodes and their lists.                               *)
(***************************************************************************)
EXTENDS TensorGraph, TLAPS

-----------------------------------------------------------------------------
(* Lists *)

\* A caller's list without nullptr is a sequence of existing values.
LEMMA ListsOfValues ==
    ASSUME NEW n \in Nat, NEW s \in ListsUpTo(Argument, n), Null \notin Elems(s)
    PROVE  /\ s \in Seq(Value)
           /\ \A v \in Elems(s) : v \in Value /\ Exists(v)
  <1>1. PICK k \in 0 .. n : s \in [1 .. k -> Argument]
    BY DEF ListsUpTo
  <1>2. \A i \in 1 .. k : s[i] \in Value /\ Exists(s[i])
    BY <1>1 DEF Elems, Argument
  <1>3. s \in [1 .. k -> Value]
    BY <1>1, <1>2
  <1>4. k \in Nat
    OBVIOUS
  <1>5. s \in Seq(Value)
    BY <1>3, <1>4
  <1>6. DOMAIN s = 1 .. k
    BY <1>1
  <1> QED
    BY <1>2, <1>5, <1>6 DEF Elems

\* Append adds one element, at the end.
LEMMA AppendFacts ==
    ASSUME NEW S, NEW s \in Seq(S), NEW e \in S
    PROVE  /\ Append(s, e) \in Seq(S)
           /\ Len(Append(s, e)) = Len(s) + 1
           /\ DOMAIN Append(s, e) = DOMAIN s \cup {Len(s) + 1}
           /\ Len(s) + 1 \notin DOMAIN s
           /\ \A i \in DOMAIN s : Append(s, e)[i] = s[i]
           /\ Append(s, e)[Len(s) + 1] = e
           /\ Elems(Append(s, e)) = Elems(s) \cup {e}
  <1>1. /\ Append(s, e) \in Seq(S)
        /\ Len(Append(s, e)) = Len(s) + 1
        /\ DOMAIN Append(s, e) = DOMAIN s \cup {Len(s) + 1}
        /\ Len(s) + 1 \notin DOMAIN s
        /\ \A i \in DOMAIN s : Append(s, e)[i] = s[i]
        /\ Append(s, e)[Len(s) + 1] = e
    OBVIOUS
  <1> QED
    BY <1>1 DEF Elems

-----------------------------------------------------------------------------
(* Types *)

\* What add_node appends is a well-formed node.
LEMMA NewNodeType ==
    ASSUME TypeOK, NEW b \in Builders, NEW name \in NodeNames \cup {Unnamed},
           NEW ins \in Seq(Value), NEW outs \in Seq(Value)
    PROVE  /\ [name |-> NameFor(b, name), inputs |-> ins, outputs |-> outs] \in NodeRecord
           /\ <<b, Len(nodes_[b]) + 1>> \in Node
           /\ nodes_[b] \in Seq(NodeRecord)
  <1>1. NameFor(b, name) \in NodeNames \cup AutoNames
    BY DEF NameFor, AutoName, AutoNames, TypeOK
  <1>2. nodes_[b] \in Seq(NodeRecord)
    BY DEF TypeOK
  <1>3. Len(nodes_[b]) + 1 \in Nat \ {0}
    BY <1>2
  <1> QED
    BY <1>1, <1>2, <1>3 DEF NodeRecord, Node

LEMMA TypeStep ==
    ASSUME TypeOK, [Next]_vars
    PROVE  TypeOK'
  <1>1. CASE UNCHANGED vars
    BY <1>1 DEF TypeOK, vars
  <1>2. ASSUME NEW b \in Builders, NEW name \in Names, GetOrCreateValue(b, name)
        PROVE  TypeOK'
    BY <1>2 DEF TypeOK, GetOrCreateValue, get_or_create_value, links, marks
  <1>3. ASSUME NEW b \in Builders, NEW role \in Roles, NEW v \in Argument, MarkAs(role, b, v)
        PROVE  TypeOK'
    <2>1. CASE v = Null
      BY <1>3, <2>1 DEF TypeOK, MarkAs, mark_as, links, marks
    <2>2. CASE v # Null
      <3>1. v \in Value
        BY <2>2 DEF Argument
      <3>2. flagged' \in [Roles -> SUBSET Value]
        <4>1. flagged' = [flagged EXCEPT ![role] = @ \cup {v}]
          BY <1>3, <2>2 DEF MarkAs, mark_as
        <4> QED
          BY <4>1, <3>1 DEF TypeOK
      <3>3. listed[role][b] \in Seq(Value) /\ Append(listed[role][b], v) \in Seq(Value)
        BY <3>1 DEF TypeOK
      <3>4. listed' \in [Roles -> [Builders -> Seq(Value)]]
        <4> DEFINE list == IF v \in Elems(listed[role][b]) THEN listed[role][b]
                                                          ELSE Append(listed[role][b], v)
        <4>1. list \in Seq(Value)
          BY <3>3
        <4>2. listed' = [listed EXCEPT ![role][b] = list]
          BY <1>3, <2>2 DEF MarkAs, mark_as
        <4> QED
          BY <4>1, <4>2 DEF TypeOK
      <3>5. damaged' \subseteq Builders
        BY <1>3 DEF TypeOK, MarkAs
      <3> QED
        BY <1>3, <3>2, <3>4, <3>5 DEF TypeOK, MarkAs, links
    <2> QED
      BY <2>1, <2>2
  <1>4. ASSUME NEW b \in Builders, NEW name \in NodeNames \cup {Unnamed},
               NEW ins \in ListsUpTo(Argument, MaxInputs),
               NEW outs \in ListsUpTo(Argument, MaxOutputs),
               AddNode(b, name, ins, outs)
        PROVE  TypeOK'
    <2>1. ins \in Seq(Value) /\ outs \in Seq(Value)
      BY <1>4, ListsOfValues, BoundAssumption DEF AddNode
    <2> DEFINE node == <<b, Len(nodes_[b]) + 1>>
               record == [name |-> NameFor(b, name), inputs |-> ins, outputs |-> outs]
    <2>2. record \in NodeRecord /\ node \in Node /\ nodes_[b] \in Seq(NodeRecord)
      BY <2>1, NewNodeType
    <2>3. Append(nodes_[b], record) \in Seq(NodeRecord)
      BY <2>2
    <2>4. nodes_' \in [Builders -> Seq(NodeRecord)]
      BY <1>4, <2>3 DEF AddNode, add_node, TypeOK
    <2>5. producer' \in [Value -> Node \cup {Null}] /\ consumers' \in [Value -> SUBSET Node]
      BY <1>4, <2>2 DEF AddNode, add_node, TypeOK
    <2>6. auto_node_counter_' \in [Builders -> Nat]
      BY <1>4 DEF AddNode, add_node, TypeOK
    <2>7. damaged' \subseteq Builders
      <3>1. Linked(outs) \subseteq Elems(outs)
        BY DEF Linked, Elems
      <3>2. Elems(ins) \subseteq Value /\ Elems(outs) \subseteq Value
        BY <2>1 DEF Elems
      <3> QED
        BY <1>4, <3>1, <3>2 DEF AddNode, Harmed, TypeOK, Value
    <2> QED
      BY <1>4, <2>4, <2>5, <2>6, <2>7 DEF AddNode, TypeOK, marks
  <1> QED
    BY <1>1, <1>2, <1>3, <1>4 DEF Next, AddNodeRejected

\* Every variable always has the type of the member it stands for.
THEOREM TypeCorrect == Spec => []TypeOK
  <1>1. Init => TypeOK
    BY DEF Init, TypeOK
  <1>2. TypeOK /\ [Next]_vars => TypeOK'
    BY TypeStep
  <1> QED
    BY <1>1, <1>2, PTL DEF Spec

-----------------------------------------------------------------------------
(* The memory of nodes, before and after a step *)

NodeLists == [Builders -> Seq(NodeRecord)]
Has(mem, n) == n[2] \in DOMAIN mem[n[1]]
At(mem, n)  == mem[n[1]][n[2]]

\* A node's pointer, from its builder's list.
LEMMA NodePointers ==
    ASSUME NEW mem \in NodeLists, NEW c \in Builders, NEW n
    PROVE  n \in {c} \X DOMAIN mem[c] <=> n \in Node /\ n[1] = c /\ Has(mem, n)
  <1>1. DOMAIN mem[c] \subseteq Nat \ {0}
    BY DEF NodeLists
  <1> QED
    BY <1>1 DEF Node, Has

LEMMA NodeArguments ==
    ASSUME NEW mem \in NodeLists, NEW n \in Node, Has(mem, n)
    PROVE  Elems(At(mem, n).inputs) \subseteq Value /\ Elems(At(mem, n).outputs) \subseteq Value
  <1>1. n[1] \in Builders /\ mem[n[1]] \in Seq(NodeRecord)
    BY DEF Node, NodeLists
  <1>2. At(mem, n) \in NodeRecord
    BY <1>1 DEF Has, At
  <1> QED
    BY <1>2 DEF NodeRecord, Elems

\* The pointer of the node that add_node is about to make.
NewNode(b) == <<b, Len(nodes_[b]) + 1>>

\* Appending a node adds one pointer and leaves every other node as it is.
LEMMA AppendNode ==
    ASSUME nodes_ \in NodeLists, NEW b \in Builders, NEW record \in NodeRecord,
           nodes_' = [nodes_ EXCEPT ![b] = Append(@, record)]
    PROVE  /\ NewNode(b) \in Node
           /\ ~Has(nodes_, NewNode(b)) /\ Has(nodes_', NewNode(b)) 
           /\ At(nodes_', NewNode(b)) = record
           /\ \A n \in Node : /\ Has(nodes_, n)  => Has(nodes_', n) /\ At(nodes_', n) = At(nodes_, n)
                              /\ Has(nodes_', n) => n = NewNode(b) \/ Has(nodes_, n)
  <1> DEFINE list == Append(nodes_[b], record)
  <1>1. /\ nodes_[b] \in Seq(NodeRecord)
        /\ nodes_'[b] = list /\ \A c \in Builders : c # b => nodes_'[c] = nodes_[c]
    BY DEF NodeLists
  <1>2. /\ DOMAIN list = DOMAIN nodes_[b] \cup {Len(nodes_[b]) + 1}
        /\ Len(nodes_[b]) + 1 \notin DOMAIN nodes_[b]
        /\ \A i \in DOMAIN nodes_[b] : list[i] = nodes_[b][i]
        /\ list[Len(nodes_[b]) + 1] = record
    BY <1>1, AppendFacts
  <1> HIDE DEF list
  <1>3. NewNode(b) \in Node
    BY <1>1 DEF Node, NewNode
  <1>4. ~Has(nodes_, NewNode(b)) /\ Has(nodes_', NewNode(b)) /\ At(nodes_', NewNode(b)) = record
    BY <1>1, <1>2 DEF Has, At, NewNode
  <1>5. ASSUME NEW n \in Node
        PROVE  /\ Has(nodes_, n)  => Has(nodes_', n) /\ At(nodes_', n) = At(nodes_, n)
               /\ Has(nodes_', n) => n = NewNode(b) \/ Has(nodes_, n)
    <2>1. n[1] \in Builders /\ n = <<n[1], n[2]>>
      BY DEF Node
    <2>2. CASE n[1] = b
      BY <2>1, <2>2, <1>1, <1>2 DEF Has, At, NewNode
    <2>3. CASE n[1] # b
      BY <2>1, <2>3, <1>1 DEF Has, At
    <2> QED
      BY <2>2, <2>3
  <1> QED
    BY <1>3, <1>4, <1>5

\* What a successful or half-finished add_node changes.
LEMMA AddNodeEffect ==
    ASSUME TypeOK, NEW b \in Builders, NEW name \in NodeNames \cup {Unnamed},
           NEW ins \in ListsUpTo(Argument, MaxInputs),
           NEW outs \in ListsUpTo(Argument, MaxOutputs),
           AddNode(b, name, ins, outs)
    PROVE  /\ \A v \in Elems(ins) \cup Elems(outs) : v \in Value /\ Exists(v)
           /\ NewNode(b) \in Node /\ ~Has(nodes_, NewNode(b)) /\ Has(nodes_', NewNode(b))
           /\ At(nodes_', NewNode(b)).inputs = ins /\ At(nodes_', NewNode(b)).outputs = outs
           /\ \A n \in Node : /\ Has(nodes_, n) => Has(nodes_', n) /\ At(nodes_', n) = At(nodes_, n)
                              /\ Has(nodes_', n) => n = NewNode(b) \/ Has(nodes_, n)
           /\ \A v \in Value : consumers'[v] = IF v \in Elems(ins)
                                  THEN consumers[v] \cup {NewNode(b)} ELSE consumers[v]
           /\ \A v \in Value : producer'[v] = IF v \in Linked(outs) THEN NewNode(b) ELSE producer[v]
           /\ \A v \in Linked(outs) : v \in Elems(outs) /\ producer[v] = Null
  <1> DEFINE record == [name |-> NameFor(b, name), inputs |-> ins, outputs |-> outs]
  <1>1. /\ ins \in Seq(Value) /\ outs \in Seq(Value)
        /\ \A v \in Elems(ins) \cup Elems(outs) : v \in Value /\ Exists(v)
    BY ListsOfValues, BoundAssumption DEF AddNode
  <1>2. record \in NodeRecord
    BY <1>1, NewNodeType
  <1>3. nodes_' = [nodes_ EXCEPT ![b] = Append(@, record)] /\ nodes_ \in NodeLists
    BY DEF AddNode, add_node, TypeOK, NodeLists
  <1>4. record.inputs = ins /\ record.outputs = outs
    OBVIOUS
  <1> HIDE DEF record
  <1>5. /\ NewNode(b) \in Node /\ ~Has(nodes_, NewNode(b)) /\ Has(nodes_', NewNode(b))
        /\ At(nodes_', NewNode(b)) = record
        /\ \A n \in Node : /\ Has(nodes_, n) => Has(nodes_', n) /\ At(nodes_', n) = At(nodes_, n)
                           /\ Has(nodes_', n) => n = NewNode(b) \/ Has(nodes_, n)
    BY <1>2, <1>3, AppendNode
  <1>6. /\ \A v \in Value : consumers'[v] = IF v \in Elems(ins)
                               THEN consumers[v] \cup {NewNode(b)} ELSE consumers[v]
        /\ \A v \in Value : producer'[v] = IF v \in Linked(outs) THEN NewNode(b) ELSE producer[v]
    BY DEF AddNode, add_node, NewNode
  <1>7. \A v \in Linked(outs) : v \in Elems(outs) /\ producer[v] = Null
    <2> SUFFICES ASSUME NEW j \in DOMAIN outs, \A i \in 1 .. j : ~Taken(outs, i)
                 PROVE  producer[outs[j]] = Null
      BY DEF Linked, Elems
    <2>1. j \in 1 .. j
      BY <1>1
    <2> QED
      BY <2>1 DEF Taken
  <1> QED
    BY <1>1, <1>4, <1>5, <1>6, <1>7

-----------------------------------------------------------------------------
(* Links *)

\* LinksMirrored, with the memory as an argument.
Mirrored(mem, prod, cons) ==
    /\ \A v \in Value : prod[v] # Null => Has(mem, prod[v]) /\ v \in Elems(At(mem, prod[v]).outputs)
    /\ \A v \in Value : \A n \in cons[v] : Has(mem, n) /\ v \in Elems(At(mem, n).inputs)
    /\ \A n \in Node : Has(mem, n) => \A v \in Elems(At(mem, n).inputs) : n \in cons[v]

LEMMA MirroredIsLinksMirrored ==
    TypeOK => (LinksMirrored <=> Mirrored(nodes_, producer, consumers))
  <1> SUFFICES ASSUME TypeOK
               PROVE  LinksMirrored <=> Mirrored(nodes_, producer, consumers)
    OBVIOUS
  <1>1. \A c \in Builders : \A n : n \in NodesOf(c) <=> n \in Node /\ n[1] = c /\ Has(nodes_, n)
    BY NodePointers DEF TypeOK, NodesOf, NodeLists
  <1>2. \A n \in Node : n[1] \in Builders
    BY DEF Node
  <1> QED
    BY <1>1, <1>2 DEF LinksMirrored, Mirrored, IsNode, NodeAt, Has, At

LEMMA LinksStep ==
    ASSUME TypeOK, LinksMirrored, [Next]_vars
    PROVE  LinksMirrored'
  <1>1. Mirrored(nodes_, producer, consumers)
    BY MirroredIsLinksMirrored
  <1>2. ASSUME Mirrored(nodes_', producer', consumers')
        PROVE  LinksMirrored'
    <2>1. nodes_' \in NodeLists
      BY TypeStep DEF TypeOK, NodeLists
    <2>2. \A c \in Builders : \A n : n \in NodesOf(c)' <=> n \in Node /\ n[1] = c /\ Has(nodes_', n)
      BY <2>1, NodePointers DEF NodesOf
    <2> QED
      BY <1>2, <2>2 DEF LinksMirrored, Mirrored, IsNode, NodeAt, Has, At
  <1>3. ASSUME NEW b \in Builders, NEW name \in NodeNames \cup {Unnamed},
               NEW ins \in ListsUpTo(Argument, MaxInputs),
               NEW outs \in ListsUpTo(Argument, MaxOutputs),
               AddNode(b, name, ins, outs)
        PROVE  Mirrored(nodes_', producer', consumers')
    <2> DEFINE node == NewNode(b)
    <2>2. /\ \A v \in Elems(ins) \cup Elems(outs) : v \in Value
          /\ node \in Node /\ Has(nodes_', node)
          /\ At(nodes_', node).inputs = ins /\ At(nodes_', node).outputs = outs
          /\ \A n \in Node : /\ Has(nodes_, n) => Has(nodes_', n) /\ At(nodes_', n) = At(nodes_, n)
                             /\ Has(nodes_', n) => n = node \/ Has(nodes_, n)
          /\ \A v \in Value : consumers'[v] = IF v \in Elems(ins)
                                 THEN consumers[v] \cup {node} ELSE consumers[v]
          /\ \A v \in Value : producer'[v] = IF v \in Linked(outs) THEN node ELSE producer[v]
          /\ \A v \in Linked(outs) : v \in Elems(outs)
      BY <1>3, AddNodeEffect
    <2> HIDE DEF node
    <2>3. ASSUME NEW v \in Value, producer'[v] # Null
          PROVE  Has(nodes_', producer'[v]) /\ v \in Elems(At(nodes_', producer'[v]).outputs)
      <3>1. CASE v \in Linked(outs)
        BY <2>2, <3>1
      <3>2. CASE v \notin Linked(outs)
        <4>1. producer'[v] = producer[v] /\ producer[v] \in Node
          BY <2>2, <2>3, <3>2 DEF TypeOK
        <4> QED
          BY <1>1, <2>2, <2>3, <4>1 DEF Mirrored
      <3> QED
        BY <3>1, <3>2
    <2>4. ASSUME NEW v \in Value, NEW n \in consumers'[v]
          PROVE  Has(nodes_', n) /\ v \in Elems(At(nodes_', n).inputs)
      <3>1. CASE n = node /\ v \in Elems(ins)
        BY <2>2, <3>1
      <3>2. CASE n \in consumers[v]
        <4>1. n \in Node
          BY <3>2 DEF TypeOK
        <4> QED
          BY <1>1, <2>2, <3>2, <4>1 DEF Mirrored
      <3> QED
        BY <2>2, <2>4, <3>1, <3>2
    <2>5. ASSUME NEW n \in Node, Has(nodes_', n), NEW v \in Elems(At(nodes_', n).inputs)
          PROVE  n \in consumers'[v]
      <3>1. CASE n = node
        BY <2>2, <2>5, <3>1
      <3>2. CASE n # node
        <4>1. Has(nodes_, n) /\ v \in Elems(At(nodes_, n).inputs)
          BY <2>2, <2>5, <3>2
        <4>2. v \in Value
          BY <4>1, NodeArguments DEF TypeOK, NodeLists
        <4>3. n \in consumers[v]
          BY <1>1, <4>1 DEF Mirrored
        <4> QED
          BY <2>2, <4>2, <4>3
      <3> QED
        BY <3>1, <3>2
    <2> QED
      BY <2>3, <2>4, <2>5 DEF Mirrored
  <1>4. ASSUME UNCHANGED links
        PROVE  Mirrored(nodes_', producer', consumers')
    BY <1>1, <1>4 DEF links
  <1> QED
    BY <1>2, <1>3, <1>4 DEF Next, GetOrCreateValue, MarkAs, AddNodeRejected, vars, links

\* A link that a value records is backed by the node it names, and every node is
\* known to all its inputs, after any sequence of calls, failed ones included.
THEOREM LinksAlwaysMirrored == Spec => []LinksMirrored
  <1>1. Init => LinksMirrored
    BY DEF Init, LinksMirrored, NodesOf
  <1>2. TypeOK /\ LinksMirrored /\ [Next]_vars => LinksMirrored'
    BY LinksStep
  <1> QED
    BY <1>1, <1>2, TypeCorrect, PTL DEF Spec

\* No call gives a value that has a producer another one, or takes it away.
THEOREM ProducerNeverChanges == Spec => ProducerIsFinal
  <1>1. TypeOK /\ [Next]_vars
            => [\A v \in Value : producer[v] # Null => producer'[v] = producer[v]]_vars
    <2> SUFFICES ASSUME TypeOK, Next, NEW v \in Value, producer[v] # Null
                 PROVE  producer'[v] = producer[v]
      OBVIOUS
    <2>1. ASSUME NEW b \in Builders, NEW name \in NodeNames \cup {Unnamed},
                 NEW ins \in ListsUpTo(Argument, MaxInputs),
                 NEW outs \in ListsUpTo(Argument, MaxOutputs),
                 AddNode(b, name, ins, outs)
          PROVE  producer'[v] = producer[v]
      BY <2>1, AddNodeEffect
    <2> QED
      BY <2>1 DEF Next, GetOrCreateValue, MarkAs, AddNodeRejected, vars, links
  <1> QED
    BY <1>1, TypeCorrect, PTL DEF Spec, ProducerIsFinal

-----------------------------------------------------------------------------
(* What verify() can see *)

\* Node lists hold values that exist; a builder's lists of marked values hold
\* existing, flagged values, each once.
ArgumentsExist ==
    \A n \in Node : Has(nodes_, n) =>
        \A v \in Elems(At(nodes_, n).inputs) \cup Elems(At(nodes_, n).outputs) : Exists(v)

ListsFlagged ==
    \A role \in Roles, b \in Builders :
        LET list == listed[role][b]
        IN  /\ \A v \in Elems(list) : Exists(v) /\ v \in flagged[role]
            /\ \A i, j \in DOMAIN list : list[i] = list[j] => i = j

\* The three ways in which a builder's graph can be wrong: a node with a foreign
\* argument or an output that is not its own, a value linked to a foreign node, a
\* foreign value in a list.
SickNode(mem, prod, b) ==
    \E n \in Node : /\ Has(mem, n) /\ n[1] = b
                    /\ \/ \E v \in Elems(At(mem, n).inputs)  : v[1] # b
                       \/ \E v \in Elems(At(mem, n).outputs) : v[1] # b \/ prod[v] # n

SickValue(prod, cons, b) ==
    \E v \in Value : /\ v[1] = b
                     /\ \/ \E n \in cons[v] : n[1] # b
                        \/ prod[v] # Null /\ prod[v][1] # b

SickList(lst, b) == \E role \in Roles : \E v \in Elems(lst[role][b]) : v[1] # b

Sick(b) == SickNode(nodes_, producer, b) \/ SickValue(producer, consumers, b) \/ SickList(listed, b)

\* The inductive invariant.
DamageRecorded == \A b \in Builders : Sick(b) <=> b \in damaged
IInv == TypeOK /\ LinksMirrored /\ ArgumentsExist /\ ListsFlagged /\ DamageRecorded

\* No call forgets a value.
LEMMA ValuesStay ==
    ASSUME TypeOK, [Next]_vars, NEW v, v[1] \in Builders, Exists(v)
    PROVE  Exists(v)'
  <1>1. CASE UNCHANGED values_
    BY <1>1 DEF Exists
  <1>2. ASSUME NEW b \in Builders, NEW name \in Names, GetOrCreateValue(b, name)
        PROVE  Exists(v)'
    <2>1. values_' = [values_ EXCEPT ![b] = @ \cup {name}] /\ values_ \in [Builders -> SUBSET Names]
      BY <1>2 DEF GetOrCreateValue, get_or_create_value, TypeOK
    <2>2. values_[v[1]] \subseteq values_'[v[1]]
      BY <2>1
    <2> QED
      BY <2>2 DEF Exists
  <1> QED
    BY <1>1, <1>2 DEF Next, vars, MarkAs, AddNodeRejected, AddNode

LEMMA ArgumentsStep ==
    ASSUME TypeOK, ArgumentsExist, [Next]_vars
    PROVE  ArgumentsExist'
  <1>1. ASSUME NEW v \in Value, Exists(v)
        PROVE  Exists(v)'
    BY <1>1, ValuesStay DEF Value
  <1>2. ASSUME NEW n \in Node, Has(nodes_, n),
               NEW v \in Elems(At(nodes_, n).inputs) \cup Elems(At(nodes_, n).outputs)
        PROVE  Exists(v)'
    <2>1. v \in Value
      BY <1>2, NodeArguments DEF TypeOK, NodeLists
    <2> QED
      BY <1>1, <1>2, <2>1 DEF ArgumentsExist
  <1>3. CASE UNCHANGED nodes_
    BY <1>2, <1>3 DEF ArgumentsExist
  <1>4. ASSUME NEW b \in Builders, NEW name \in NodeNames \cup {Unnamed},
               NEW ins \in ListsUpTo(Argument, MaxInputs),
               NEW outs \in ListsUpTo(Argument, MaxOutputs),
               AddNode(b, name, ins, outs)
        PROVE  ArgumentsExist'
    <2> DEFINE node == NewNode(b)
    <2>1. /\ \A v \in Elems(ins) \cup Elems(outs) : v \in Value /\ Exists(v)
          /\ At(nodes_', node).inputs = ins /\ At(nodes_', node).outputs = outs
          /\ \A n \in Node : /\ Has(nodes_, n) => At(nodes_', n) = At(nodes_, n)
                             /\ Has(nodes_', n) => n = node \/ Has(nodes_, n)
      BY <1>4, AddNodeEffect
    <2> HIDE DEF node
    <2>2. ASSUME NEW n \in Node, Has(nodes_', n),
                 NEW v \in Elems(At(nodes_', n).inputs) \cup Elems(At(nodes_', n).outputs)
          PROVE  Exists(v)'
      <3>1. CASE n = node
        BY <2>1, <2>2, <3>1, <1>1
      <3>2. CASE Has(nodes_, n)
        BY <2>1, <2>2, <3>2, <1>2
      <3> QED
        BY <2>1, <2>2, <3>1, <3>2
    <2> QED
      BY <2>2 DEF ArgumentsExist
  <1> QED
    BY <1>3, <1>4 DEF Next, vars, links, GetOrCreateValue, MarkAs, AddNodeRejected

LEMMA ListsStep ==
    ASSUME TypeOK, ListsFlagged, [Next]_vars
    PROVE  ListsFlagged'
  <1>1. ASSUME NEW v, v[1] \in Builders, Exists(v)
        PROVE  Exists(v)'
    BY <1>1, ValuesStay
  <1>2. \A role \in Roles, b \in Builders : \A v \in Elems(listed[role][b]) : v[1] \in Builders
    BY DEF TypeOK, Elems, Value
  <1>3. CASE UNCHANGED marks
    BY <1>1, <1>2, <1>3 DEF ListsFlagged, marks
  <1>4. ASSUME NEW b \in Builders, NEW role \in Roles, NEW v \in Argument, MarkAs(role, b, v),
               v # Null
        PROVE  ListsFlagged'
    <2> DEFINE old == listed[role][b]
               new == IF v \in Elems(old) THEN old ELSE Append(old, v)
    <2>1. v \in Value /\ Exists(v)
      BY <1>4 DEF Argument
    <2>2. listed' = [listed EXCEPT ![role][b] = new] /\ flagged' = [flagged EXCEPT ![role] = @ \cup {v}]
      BY <1>4 DEF MarkAs, mark_as
    <2>3. /\ listed'[role][b] = new
          /\ \A r \in Roles, c \in Builders : r # role \/ c # b => listed'[r][c] = listed[r][c]
          /\ \A r \in Roles : flagged[r] \subseteq flagged'[r]
          /\ v \in flagged'[role]
      BY <2>2 DEF TypeOK
    <2>4. old \in Seq(Value)
      BY DEF TypeOK
    <2> HIDE DEF old
    <2>5. /\ Elems(new) = Elems(old) \cup {v}
          /\ (\A i, j \in DOMAIN old : old[i] = old[j] => i = j)
                => \A i, j \in DOMAIN new : new[i] = new[j] => i = j
      <3>1. CASE v \in Elems(old)
        BY <3>1
      <3>2. CASE v \notin Elems(old)
        <4>1. /\ new = Append(old, v)
              /\ DOMAIN new = DOMAIN old \cup {Len(old) + 1}
              /\ \A i \in DOMAIN old : new[i] = old[i]
              /\ new[Len(old) + 1] = v
              /\ Elems(new) = Elems(old) \cup {v}
          BY <3>2, <2>1, <2>4, AppendFacts
        <4> QED
          BY <3>2, <4>1 DEF Elems
      <3> QED
        BY <3>1, <3>2
    <2> HIDE DEF new
    <2>6. ASSUME NEW r \in Roles, NEW c \in Builders
          PROVE  LET list == listed'[r][c]
                 IN  /\ \A w \in Elems(list) : Exists(w)' /\ w \in flagged'[r]
                     /\ \A i, j \in DOMAIN list : list[i] = list[j] => i = j
      <3>1. CASE r = role /\ c = b
        <4>1. \A w \in Elems(old) : Exists(w) /\ w \in flagged[role] /\ w[1] \in Builders
          BY <1>2 DEF ListsFlagged, old
        <4>2. \A i, j \in DOMAIN old : old[i] = old[j] => i = j
          BY DEF ListsFlagged, old
        <4>3. v[1] \in Builders
          BY <2>1 DEF Value
        <4> QED
          BY <1>1, <2>1, <2>3, <2>5, <3>1, <4>1, <4>2, <4>3
      <3>2. CASE r # role \/ c # b
        BY <1>1, <1>2, <2>3, <3>2 DEF ListsFlagged
      <3> QED
        BY <3>1, <3>2
    <2> QED
      BY <2>6 DEF ListsFlagged
  <1> QED
    BY <1>3, <1>4 DEF Next, vars, marks, GetOrCreateValue, MarkAs, mark_as, AddNodeRejected, AddNode

\* add_node and the nodes: a builder's nodes become wrong exactly when the call is
\* on that builder and a value is foreign or an output stays unlinked.
LEMMA SickNodeStep ==
    ASSUME TypeOK, LinksMirrored, NEW b \in Builders, NEW name \in NodeNames \cup {Unnamed},
           NEW ins \in ListsUpTo(Argument, MaxInputs),
           NEW outs \in ListsUpTo(Argument, MaxOutputs),
           AddNode(b, name, ins, outs), NEW c \in Builders
    PROVE  SickNode(nodes_', producer', c) <=>
              \/ SickNode(nodes_, producer, c)
              \/ /\ c = b
                 /\ \/ \E v \in Elems(ins) \cup Elems(outs) : v[1] # b
                    \/ ~(Elems(outs) \subseteq Linked(outs))
  <1> DEFINE node == NewNode(b)
  <1>1. /\ \A v \in Elems(ins) \cup Elems(outs) : v \in Value
        /\ node \in Node /\ node[1] = b /\ ~Has(nodes_, node) /\ Has(nodes_', node)
        /\ At(nodes_', node).inputs = ins /\ At(nodes_', node).outputs = outs
        /\ \A n \in Node : /\ Has(nodes_, n) => Has(nodes_', n) /\ At(nodes_', n) = At(nodes_, n)
                           /\ Has(nodes_', n) => n = node \/ Has(nodes_, n)
        /\ \A v \in Value : producer'[v] = IF v \in Linked(outs) THEN node ELSE producer[v]
        /\ \A v \in Linked(outs) : v \in Elems(outs) /\ producer[v] = Null
    <2>1. NewNode(b)[1] = b
      BY DEF NewNode
    <2> QED
      BY <2>1, AddNodeEffect
  <1> HIDE DEF node
  <1>2. \A n \in Node : n # Null
    BY NullAssumption
  <1>3. ASSUME NEW n \in Node, Has(nodes_, n), NEW v \in Value
        PROVE  producer'[v] = n <=> producer[v] = n
    BY <1>1, <1>2, <1>3
  <1>4. ASSUME NEW n \in Node, Has(nodes_, n)
        PROVE  Elems(At(nodes_, n).outputs) \subseteq Value
    BY <1>4, NodeArguments DEF TypeOK, NodeLists
  <1>5. ASSUME NEW v \in Elems(outs)
        PROVE  producer'[v] = node <=> v \in Linked(outs)
    <2>1. v \in Value /\ producer[v] # node
      BY <1>1, <1>2, MirroredIsLinksMirrored DEF Mirrored
    <2> QED
      BY <1>1, <2>1
  <1>6. SickNode(nodes_, producer, c) => SickNode(nodes_', producer', c)
    <2> SUFFICES ASSUME NEW n \in Node, Has(nodes_, n), n[1] = c,
                        \/ \E v \in Elems(At(nodes_, n).inputs)  : v[1] # c
                        \/ \E v \in Elems(At(nodes_, n).outputs) : v[1] # c \/ producer[v] # n
                 PROVE  SickNode(nodes_', producer', c)
      BY DEF SickNode
    <2>1. Has(nodes_', n) /\ At(nodes_', n) = At(nodes_, n)
      BY <1>1
    <2>2. \A v \in Elems(At(nodes_, n).outputs) : producer[v] # n => producer'[v] # n
      BY <1>3, <1>4
    <2> QED
      BY <2>1, <2>2 DEF SickNode
  <1>7. ASSUME c = b, \/ \E v \in Elems(ins) \cup Elems(outs) : v[1] # b
                      \/ ~(Elems(outs) \subseteq Linked(outs))
        PROVE  SickNode(nodes_', producer', c)
    BY <1>1, <1>5, <1>7 DEF SickNode
  <1>8. ASSUME SickNode(nodes_', producer', c)
        PROVE  \/ SickNode(nodes_, producer, c)
               \/ /\ c = b
                  /\ \/ \E v \in Elems(ins) \cup Elems(outs) : v[1] # b
                     \/ ~(Elems(outs) \subseteq Linked(outs))
    <2>1. PICK n \in Node : /\ Has(nodes_', n) /\ n[1] = c
                            /\ \/ \E v \in Elems(At(nodes_', n).inputs)  : v[1] # c
                               \/ \E v \in Elems(At(nodes_', n).outputs) : v[1] # c \/ producer'[v] # n
      BY <1>8 DEF SickNode
    <2>2. CASE n = node
      BY <1>1, <1>5, <2>1, <2>2
    <2>3. CASE Has(nodes_, n)
      <3>1. At(nodes_', n) = At(nodes_, n)
        BY <1>1, <2>3
      <3>2. \A v \in Elems(At(nodes_, n).outputs) : producer'[v] # n => producer[v] # n
        BY <1>3, <1>4, <2>3
      <3> QED
        BY <2>1, <2>3, <3>1, <3>2 DEF SickNode
    <2> QED
      BY <1>1, <2>1, <2>2, <2>3
  <1> QED
    BY <1>6, <1>7, <1>8

\* add_node and the values: a builder's values become wrong exactly when the call is
\* on another builder and tells one of them of its node.
LEMMA SickValueStep ==
    ASSUME TypeOK, NEW b \in Builders, NEW name \in NodeNames \cup {Unnamed},
           NEW ins \in ListsUpTo(Argument, MaxInputs),
           NEW outs \in ListsUpTo(Argument, MaxOutputs),
           AddNode(b, name, ins, outs), NEW c \in Builders
    PROVE  SickValue(producer', consumers', c) <=>
              \/ SickValue(producer, consumers, c)
              \/ c # b /\ \E v \in Elems(ins) \cup Linked(outs) : v[1] = c
  <1> DEFINE node == NewNode(b)
  <1>1. /\ \A v \in Elems(ins) \cup Elems(outs) : v \in Value
        /\ node \in Node /\ node[1] = b
        /\ \A v \in Value : consumers'[v] = IF v \in Elems(ins)
                               THEN consumers[v] \cup {node} ELSE consumers[v]
        /\ \A v \in Value : producer'[v] = IF v \in Linked(outs) THEN node ELSE producer[v]
        /\ \A v \in Linked(outs) : v \in Elems(outs) /\ producer[v] = Null
    <2>1. NewNode(b)[1] = b
      BY DEF NewNode
    <2> QED
      BY <2>1, AddNodeEffect
  <1> HIDE DEF node
  <1>2. node # Null
    BY <1>1, NullAssumption
  <1>3. SickValue(producer, consumers, c) => SickValue(producer', consumers', c)
    BY <1>1 DEF SickValue
  <1>4. c # b /\ (\E v \in Elems(ins) \cup Linked(outs) : v[1] = c)
            => SickValue(producer', consumers', c)
    BY <1>1, <1>2 DEF SickValue
  <1>5. ASSUME SickValue(producer', consumers', c)
        PROVE  \/ SickValue(producer, consumers, c)
               \/ c # b /\ \E v \in Elems(ins) \cup Linked(outs) : v[1] = c
    <2>1. PICK v \in Value : /\ v[1] = c
                             /\ \/ \E n \in consumers'[v] : n[1] # c
                                \/ producer'[v] # Null /\ producer'[v][1] # c
      BY <1>5 DEF SickValue
    <2>2. ASSUME NEW n \in consumers'[v], n[1] # c
          PROVE  \/ SickValue(producer, consumers, c)
                 \/ c # b /\ \E w \in Elems(ins) \cup Linked(outs) : w[1] = c
      <3>1. CASE n \in consumers[v]
        BY <2>1, <2>2, <3>1 DEF SickValue
      <3>2. CASE n = node /\ v \in Elems(ins)
        BY <1>1, <2>1, <2>2, <3>2
      <3> QED
        BY <1>1, <2>2, <3>1, <3>2
    <2>3. CASE producer'[v] # Null /\ producer'[v][1] # c
      BY <1>1, <2>1, <2>3 DEF SickValue
    <2> QED
      BY <2>1, <2>2, <2>3
  <1> QED
    BY <1>3, <1>4, <1>5

\* mark_as: a builder's lists become wrong exactly when it is given a foreign value.
LEMMA SickListStep ==
    ASSUME TypeOK, NEW b \in Builders, NEW role \in Roles, NEW v \in Argument,
           v # Null, MarkAs(role, b, v), NEW c \in Builders
    PROVE  SickList(listed', c) <=> SickList(listed, c) \/ (c = b /\ v[1] # b)
  <1> DEFINE old == listed[role][b]
             new == IF v \in Elems(old) THEN old ELSE Append(old, v)
  <1>1. v \in Value
    BY DEF Argument
  <1>2. listed' = [listed EXCEPT ![role][b] = new]
    BY DEF MarkAs, mark_as
  <1>3. old \in Seq(Value)
    BY DEF TypeOK
  <1>4. listed'[role][b] = new
        /\ \A r \in Roles : r # role \/ c # b => listed'[r][c] = listed[r][c]
    BY <1>2 DEF TypeOK
  <1> HIDE DEF old
  <1>5. Elems(new) = Elems(old) \cup {v}
    <2>1. Elems(Append(old, v)) = Elems(old) \cup {v}
      BY <1>1, <1>3, AppendFacts
    <2> QED
      BY <2>1
  <1> HIDE DEF new
  <1>6. CASE c = b
    <2>1. \A r \in Roles : Elems(listed'[r][c]) = Elems(listed[r][c]) \cup (IF r = role THEN {v} ELSE {})
      BY <1>4, <1>5, <1>6 DEF old
    <2> QED
      BY <2>1, <1>6 DEF SickList
  <1>7. CASE c # b
    BY <1>4, <1>7 DEF SickList
  <1> QED
    BY <1>6, <1>7

LEMMA DamageStep ==
    ASSUME IInv, [Next]_vars
    PROVE  DamageRecorded'
  <1> USE DEF IInv
  <1>1. CASE UNCHANGED <<nodes_, producer, consumers, listed, damaged>>
    BY <1>1 DEF DamageRecorded, Sick, SickNode, SickValue, SickList, Has, At
  <1>2. ASSUME NEW b \in Builders, NEW role \in Roles, NEW v \in Argument, MarkAs(role, b, v)
        PROVE  DamageRecorded'
    <2>1. CASE v = Null
      BY <1>1, <1>2, <2>1 DEF MarkAs, mark_as, marks, links
    <2>2. CASE v # Null
      <3>1. UNCHANGED <<nodes_, producer, consumers>>
        BY <1>2 DEF MarkAs, links
      <3>2. damaged' = IF v[1] = b THEN damaged ELSE damaged \cup {b}
        BY <1>2, <2>2 DEF MarkAs
      <3>3. ASSUME NEW c \in Builders
            PROVE  Sick(c)' <=> c \in damaged'
        <4>1. SickList(listed', c) <=> SickList(listed, c) \/ (c = b /\ v[1] # b)
          BY <1>2, <2>2, SickListStep
        <4> QED
          BY <3>1, <3>2, <4>1 DEF DamageRecorded, Sick
      <3> QED
        BY <3>3 DEF DamageRecorded
    <2> QED
      BY <2>1, <2>2
  <1>3. ASSUME NEW b \in Builders, NEW name \in NodeNames \cup {Unnamed},
               NEW ins \in ListsUpTo(Argument, MaxInputs),
               NEW outs \in ListsUpTo(Argument, MaxOutputs),
               AddNode(b, name, ins, outs)
        PROVE  DamageRecorded'
    <2>1. UNCHANGED listed /\ damaged' = damaged \cup Harmed(b, ins, outs)
      BY <1>3 DEF AddNode, marks
    <2>2. ASSUME NEW c \in Builders
          PROVE  Sick(c)' <=> c \in damaged'
      <3>1. SickNode(nodes_', producer', c) <=>
              \/ SickNode(nodes_, producer, c)
              \/ /\ c = b
                 /\ \/ \E v \in Elems(ins) \cup Elems(outs) : v[1] # b
                    \/ ~(Elems(outs) \subseteq Linked(outs))
        BY <1>3, SickNodeStep
      <3>2. SickValue(producer', consumers', c) <=>
              \/ SickValue(producer, consumers, c)
              \/ c # b /\ \E v \in Elems(ins) \cup Linked(outs) : v[1] = c
        BY <1>3, SickValueStep
      <3>3. c \in Harmed(b, ins, outs) <=>
              \/ c # b /\ \E v \in Elems(ins) \cup Linked(outs) : v[1] = c
              \/ /\ c = b
                 /\ \/ \E v \in Elems(ins) \cup Elems(outs) : v[1] # b
                    \/ ~(Elems(outs) \subseteq Linked(outs))
        BY DEF Harmed
      <3> QED
        BY <2>1, <3>1, <3>2, <3>3 DEF DamageRecorded, Sick
    <2> QED
      BY <2>2 DEF DamageRecorded
  <1> QED
    BY <1>1, <1>2, <1>3 DEF Next, GetOrCreateValue, AddNodeRejected, vars, marks, links

\* IInv holds at every moment.
THEOREM Inductive == Spec => []IInv
  <1>1. Init => IInv
    <2> SUFFICES ASSUME Init PROVE IInv
      OBVIOUS
    <2>1. TypeOK /\ LinksMirrored
      BY DEF Init, TypeOK, LinksMirrored, NodesOf
    <2>2. \A n \in Node : ~Has(nodes_, n)
      BY DEF Init, Has, Node
    <2>3. \A role \in Roles, b \in Builders : listed[role][b] = << >> /\ Elems(listed[role][b]) = {}
      <3>1. \A role \in Roles, b \in Builders : listed[role][b] = << >>
        BY DEF Init
      <3>2. Elems(<< >>) = {}
        BY DEF Elems
      <3> QED
        BY <3>1, <3>2
    <2>4. ArgumentsExist /\ ListsFlagged
      BY <2>2, <2>3 DEF ArgumentsExist, ListsFlagged
    <2>5. DamageRecorded
      BY <2>2, <2>3 DEF Init, DamageRecorded, Sick, SickNode, SickValue, SickList
    <2> QED
      BY <2>1, <2>4, <2>5 DEF IInv
  <1>2. IInv /\ [Next]_vars => IInv'
    BY TypeStep, LinksStep, ArgumentsStep, ListsStep, DamageStep DEF IInv
  <1> QED
    BY <1>1, <1>2, PTL DEF Spec

\* In a state of IInv verify() accepts a builder exactly when it is not sick.
LEMMA VerifySeesSickness ==
    ASSUME IInv, NEW b \in Builders
    PROVE  verify(b) <=> ~Sick(b)
  <1>1. Mirrored(nodes_, producer, consumers)
    BY MirroredIsLinksMirrored DEF IInv
  <1>2. \A n : n \in NodesOf(b) <=> n \in Node /\ n[1] = b /\ Has(nodes_, n)
    BY NodePointers DEF IInv, TypeOK, NodesOf, NodeLists
  <1>3. \A v \in Value : Exists(v) => (v \in Owned(b) <=> v[1] = b)
    BY DEF Value, Exists, Owned
  <1>4. \A v \in Owned(b) : v \in Value /\ v[1] = b
    BY DEF IInv, TypeOK, Value, Owned
  <1>5. \A n \in Node : Has(nodes_, n) =>
            \A v \in Elems(At(nodes_, n).inputs) \cup Elems(At(nodes_, n).outputs) :
                v \in Value /\ Exists(v)
    BY NodeArguments DEF IInv, TypeOK, NodeLists, ArgumentsExist
  <1>6. \A v \in Value : producer[v] \in Node \cup {Null} /\ consumers[v] \subseteq Node
    BY DEF IInv, TypeOK
  <1>7. verify_nodes_consistency(b) <=> ~SickNode(nodes_, producer, b)
    BY <1>1, <1>2, <1>3, <1>5 DEF verify_nodes_consistency, SickNode, Mirrored, NodeAt, At
  <1>8. \A v \in Value : Exists(v) \/ (producer[v] = Null /\ consumers[v] = {})
    BY <1>1, <1>5, <1>6 DEF Mirrored
  <1>9. verify_values_consistency(b) <=> ~SickValue(producer, consumers, b)
    BY <1>1, <1>2, <1>3, <1>4, <1>6, <1>8 DEF verify_values_consistency, SickValue, Mirrored, NodeAt, At
  <1>10. (\A role \in Roles : verify_marks(role, b)) <=> ~SickList(listed, b)
    <2>1. \A role \in Roles : listed[role][b] \in Seq(Value)
      BY DEF IInv, TypeOK
    <2> QED
      BY <2>1, <1>3, <1>4 DEF verify_marks, SickList, IInv, ListsFlagged, Elems
  <1> QED
    BY <1>7, <1>9, <1>10 DEF verify, Sick

\* verify() throws for exactly the builders that some earlier call has harmed.
THEOREM VerifyExact == Spec => []VerifyIsExact
  <1>1. IInv => VerifyIsExact
    BY VerifySeesSickness DEF VerifyIsExact, IInv, DamageRecorded
  <1> QED
    BY <1>1, Inductive, PTL

\* No call repairs a graph: once verify() throws for a builder it always will.
THEOREM DamageNeverRepaired == Spec => DamageIsFinal
  <1>1. VerifyIsExact /\ VerifyIsExact' /\ [Next]_vars
            => [\A b \in Builders : ~verify(b) => ~verify(b)']_vars
    <2> SUFFICES ASSUME VerifyIsExact, VerifyIsExact', Next, NEW b \in Builders, ~verify(b)
                 PROVE  ~verify(b)'
      OBVIOUS
    <2>1. damaged \subseteq damaged'
      BY DEF Next, GetOrCreateValue, MarkAs, AddNodeRejected, AddNode, vars
    <2> QED
      BY <2>1 DEF VerifyIsExact
  <1> QED
    BY <1>1, VerifyExact, PTL DEF Spec, DamageIsFinal

-----------------------------------------------------------------------------
(* Names *)

\* Every made-up name is older than the counter, and belongs to one node.
NamesFresh ==
    \A b \in Builders :
        /\ \A i \in DOMAIN nodes_[b] : \A k \in Nat :
              nodes_[b][i].name = AutoName(k) /\ AutoName(k) \notin NodeNames
                  => k < auto_node_counter_[b]
        /\ \A i, j \in DOMAIN nodes_[b] :
              i # j /\ nodes_[b][i].name = nodes_[b][j].name => nodes_[b][i].name \in NodeNames

LEMMA NamesStep ==
    ASSUME TypeOK, NamesFresh, [Next]_vars
    PROVE  NamesFresh'
  <1>1. CASE UNCHANGED links
    BY <1>1 DEF NamesFresh, links
  <1>2. ASSUME NEW b \in Builders, NEW name \in NodeNames \cup {Unnamed},
               NEW ins \in ListsUpTo(Argument, MaxInputs),
               NEW outs \in ListsUpTo(Argument, MaxOutputs),
               AddNode(b, name, ins, outs), NEW c \in Builders
        PROVE  /\ \A i \in DOMAIN nodes_'[c] : \A k \in Nat :
                     nodes_'[c][i].name = AutoName(k) /\ AutoName(k) \notin NodeNames
                         => k < auto_node_counter_'[c]
               /\ \A i, j \in DOMAIN nodes_'[c] :
                     i # j /\ nodes_'[c][i].name = nodes_'[c][j].name
                         => nodes_'[c][i].name \in NodeNames
    <2> DEFINE record == [name |-> NameFor(b, name), inputs |-> ins, outputs |-> outs]
               list   == Append(nodes_[b], record)
               count  == auto_node_counter_[b]
    <2>1. ins \in Seq(Value) /\ outs \in Seq(Value)
      BY <1>2, ListsOfValues, BoundAssumption DEF AddNode
    <2>2. record \in NodeRecord /\ nodes_[b] \in Seq(NodeRecord)
      BY <2>1, NewNodeType
    <2>3. record.name = IF name = Unnamed THEN AutoName(count) ELSE name
      BY DEF NameFor
    <2> HIDE DEF record
    <2>4. /\ DOMAIN list = DOMAIN nodes_[b] \cup {Len(nodes_[b]) + 1}
          /\ \A i \in DOMAIN nodes_[b] : list[i] = nodes_[b][i]
          /\ list[Len(nodes_[b]) + 1] = record
      BY <2>2, AppendFacts
    <2>5. /\ nodes_' = [nodes_ EXCEPT ![b] = list]
          /\ auto_node_counter_' = [auto_node_counter_ EXCEPT ![b] = IF name = Unnamed THEN @ + 1 ELSE @]
      BY <1>2 DEF AddNode, add_node, record
    <2> HIDE DEF list
    <2>6. count \in Nat
      BY DEF TypeOK
    <2>7. /\ nodes_'[b] = list
          /\ auto_node_counter_'[b] = IF name = Unnamed THEN count + 1 ELSE count
          /\ c # b => nodes_'[c] = nodes_[c] /\ auto_node_counter_'[c] = auto_node_counter_[c]
      BY <2>5 DEF TypeOK
    <2>8. \A k \in Nat : AutoName(count) = AutoName(k) => k = count
      BY DEF AutoName
    <2>9. CASE c # b
      BY <2>7, <2>9 DEF NamesFresh
    <2>10. CASE c = b
      <3>1. \A k \in Nat : record.name = AutoName(k) /\ AutoName(k) \notin NodeNames
                              => name = Unnamed /\ k = count
        BY <2>3, <2>8
      <3>2. \A i \in DOMAIN nodes_[b] : nodes_[b][i].name = record.name => record.name \in NodeNames
        <4> SUFFICES ASSUME NEW i \in DOMAIN nodes_[b], nodes_[b][i].name = record.name,
                            record.name \notin NodeNames
                     PROVE  FALSE
          OBVIOUS
        <4>1. record.name = AutoName(count)
          BY <2>3
        <4>2. count < count
          BY <4>1, <2>6 DEF NamesFresh
        <4> QED
          BY <4>2, <2>6
      <3>3. \A i \in DOMAIN nodes_[b] : \A k \in Nat :
                nodes_[b][i].name = AutoName(k) /\ AutoName(k) \notin NodeNames => k < count
        BY DEF NamesFresh
      <3>4. \A i, j \in DOMAIN nodes_[b] :
                i # j /\ nodes_[b][i].name = nodes_[b][j].name => nodes_[b][i].name \in NodeNames
        BY DEF NamesFresh
      <3> HIDE DEF count
      <3>5. \A i \in DOMAIN list : \A k \in Nat :
                list[i].name = AutoName(k) /\ AutoName(k) \notin NodeNames
                    => k < auto_node_counter_'[b]
        BY <2>4, <2>6, <2>7, <3>1, <3>3
      <3>6. \A i, j \in DOMAIN list :
                i # j /\ list[i].name = list[j].name => list[i].name \in NodeNames
        BY <2>4, <3>2, <3>4
      <3> QED
        BY <2>7, <2>10, <3>5, <3>6
    <2> QED
      BY <2>9, <2>10
  <1>3. ASSUME NEW b \in Builders, NEW name \in NodeNames \cup {Unnamed},
               NEW ins \in ListsUpTo(Argument, MaxInputs),
               NEW outs \in ListsUpTo(Argument, MaxOutputs),
               AddNode(b, name, ins, outs)
        PROVE  NamesFresh'
    BY <1>2, <1>3 DEF NamesFresh
  <1> QED
    BY <1>1, <1>3 DEF Next, GetOrCreateValue, MarkAs, AddNodeRejected, vars, links

\* Nodes share a name only when a caller chose it.
THEOREM ClashesAreExplicit == Spec => []ClashIsExplicit
  <1>1. Init => NamesFresh
    <2>1. Init => \A b \in Builders : nodes_[b] = << >>
      BY DEF Init
    <2>2. \A i : i \notin DOMAIN << >>
      OBVIOUS
    <2> QED
      BY <2>1, <2>2 DEF NamesFresh
  <1>2. TypeOK /\ NamesFresh /\ [Next]_vars => NamesFresh'
    BY NamesStep
  <1>3. NamesFresh => ClashIsExplicit
    BY DEF NamesFresh, ClashIsExplicit
  <1> QED
    BY <1>1, <1>2, <1>3, TypeCorrect, PTL DEF Spec

=============================================================================
