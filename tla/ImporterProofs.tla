--------------------------- MODULE ImporterProofs ---------------------------
(***************************************************************************)
(* What holds of import_onnx for every set of files: what it builds is     *)
(* sound, and it implements its contract, ImportContract.                  *)
(*                                                                         *)
(* AlwaysSound is inductive by itself.  ReadSoFar says what the builder    *)
(* holds when the first entries of each list have been read: that part of  *)
(* the Translation of the file.  It is inductive with AlwaysSound; at the  *)
(* end of the lists it is the whole Translation.                           *)
(***************************************************************************)
EXTENDS Importer, TensorGraphProofs, FiniteSetTheorems, WellFoundedInduction

-----------------------------------------------------------------------------
(* The inputs of a node *)

\* A set of numbers has a least element.
LEMMA Least ==
    ASSUME NEW S \in SUBSET Nat, S # {}
    PROVE  \E k \in S : \A j \in S : k <= j
  <1> DEFINE T == {1 .. k : k \in S}
             R == StrictSubsetOrdering(Nat)
  <1>1. T \subseteq FiniteSubsetsOf(Nat) /\ T # {}
    <2>1. \A k \in S : IsFiniteSet(1 .. k) /\ 1 .. k \subseteq Nat
      BY FS_Interval
    <2> QED
      BY <2>1 DEF FiniteSubsetsOf
  <1>2. IsWellFoundedOn(R, FiniteSubsetsOf(Nat))
    BY FS_StrictSubsetOrderingWellFounded
  <1> HIDE DEF R
  <1>3. PICK t \in T : \A u \in T : ~(<<u, t>> \in R)
    BY <1>1, <1>2, WFMin
  <1>4. PICK k \in S : t = 1 .. k
    OBVIOUS
  <1>5. ASSUME NEW j \in S, j < k
        PROVE  FALSE
    <2>1. 1 .. j \subseteq 1 .. k /\ 1 .. j # 1 .. k /\ 1 .. j \subseteq Nat /\ 1 .. k \subseteq Nat
      BY <1>5
    <2>2. <<1 .. j, 1 .. k>> \in R
      BY <2>1 DEF R, StrictSubsetOrdering
    <2> QED
      BY <1>3, <1>4, <2>2
  <1> QED
    BY <1>5

\* What the loop has collected is a list: the names before the first empty one.
LEMMA GivenIsPrefix ==
    ASSUME NEW ins \in Seq(Names)
    PROVE  Given(ins) \in Seq(Names)
  <1> DEFINE Kept == {k \in DOMAIN ins : \A g \in 1 .. k : ins[g] # EmptyName}
             Gap  == {k \in Nat : k \notin Kept /\ k # 0}
  <1>1. Len(ins) \in Nat /\ DOMAIN ins = 1 .. Len(ins)
    OBVIOUS
  <1>2. Len(ins) + 1 \in Gap
    BY <1>1
  <1>3. PICK first \in Gap : \A k \in Gap : first <= k
    BY <1>2, Least
  <1>4. Kept = 1 .. first - 1
    <2>1. \A k \in Kept : \A g \in 1 .. k : g \in Kept
      BY <1>1
    <2>2. \A k \in Kept : k < first
      BY <1>1, <1>3, <2>1
    <2>3. \A k \in 1 .. first - 1 : k \in Kept
      BY <1>3
    <2> QED
      BY <1>1, <2>2, <2>3
  <1>5. first - 1 \in Nat
    BY <1>3
  <1>6. Given(ins) = [i \in 1 .. first - 1 |-> ins[i]]
    BY <1>4 DEF Given
  <1>7. \A i \in 1 .. first - 1 : ins[i] \in Names
    BY <1>1, <1>4
  <1> HIDE DEF Kept, Gap
  <1> QED
    BY <1>5, <1>6, <1>7

\* Pointers to the values of a list of names.
LEMMA PtrsOfNames ==
    ASSUME NEW list \in Seq(Names)
    PROVE  /\ Ptrs(list) \in Seq(Value)
           /\ Elems(Ptrs(list)) = {builder} \X Elems(list)
           /\ Elems(list) \subseteq Names
  <1>1. \A name \in Names : Ptr(name) \in Value
    BY BuilderAssumption DEF Ptr, Value
  <1>2. /\ DOMAIN Ptrs(list) = DOMAIN list
        /\ \A i \in DOMAIN list : Ptrs(list)[i] = <<builder, list[i]>> /\ list[i] \in Names
    BY DEF Ptrs, Ptr
  <1>3. Ptrs(list) \in Seq(Value)
    <2>1. Len(list) \in Nat /\ DOMAIN list = 1 .. Len(list)
      OBVIOUS
    <2>2. Ptrs(list) \in [1 .. Len(list) -> Value]
      BY <1>1, <2>1 DEF Ptrs
    <2> QED
      BY <2>1, <2>2
  <1>4. Elems(Ptrs(list)) = {builder} \X Elems(list)
    <2>1. Elems(Ptrs(list)) = {<<builder, list[i]>> : i \in DOMAIN list}
      BY <1>2 DEF Elems
    <2>2. Elems(list) = {list[i] : i \in DOMAIN list}
      BY DEF Elems
    <2> QED
      BY <2>1, <2>2
  <1> QED
    BY <1>2, <1>3, <1>4 DEF Elems

-----------------------------------------------------------------------------
(* Types *)

Phases == {"deserialize", "initializers", "inputs", "outputs", "nodes", "verify", "done", "failed"}
Entry  == {Undeclared} \cup ({"initializer", "input"} \X Nat)

ImporterTypeOK ==
    /\ TypeOK
    /\ file \in Files \cup {Unreadable}
    /\ pc \in Phases
    /\ next \in Nat \ {0}
    /\ init_names \subseteq Names
    /\ shape_ \in [Value -> Entry] /\ dtype_ \in [Value -> Entry] /\ data_ \in [Value -> Entry]

\* Looking a value up and marking it keeps the types of the graph.
LEMMA MarkType ==
    ASSUME TypeOK, NEW name \in Names, NEW role \in Roles,
           get_or_create_value(builder, name), mark_as(role, builder, Ptr(name)),
           UNCHANGED <<links, damaged>>
    PROVE  TypeOK'
  <1>1. Ptr(name) \in Value /\ Ptr(name) # Null /\ builder \in Builders
    BY BuilderAssumption, NullAssumption DEF Ptr, Value
  <1> DEFINE list == IF Ptr(name) \in Elems(listed[role][builder]) THEN listed[role][builder]
                     ELSE Append(listed[role][builder], Ptr(name))
  <1>2. list \in Seq(Value)
    BY <1>1 DEF TypeOK
  <1>3. /\ listed' = [listed EXCEPT ![role][builder] = list]
        /\ flagged' = [flagged EXCEPT ![role] = @ \cup {Ptr(name)}]
    BY <1>1 DEF mark_as
  <1> HIDE DEF list
  <1>4. listed' \in [Roles -> [Builders -> Seq(Value)]] /\ flagged' \in [Roles -> SUBSET Value]
    BY <1>1, <1>2, <1>3 DEF TypeOK
  <1>5. values_' \in [Builders -> SUBSET Names]
    BY DEF TypeOK, get_or_create_value
  <1> QED
    BY <1>4, <1>5 DEF TypeOK, links

\* The names of the declarations.
LEMMA DeclaredNames ==
    ASSUME ImporterTypeOK, file # Unreadable
    PROVE  /\ \A i \in DOMAIN file.initializer : i \in Nat /\ file.initializer[i].name \in Names
           /\ \A i \in DOMAIN file.input : i \in Nat /\ file.input[i].name \in Names
           /\ \A i \in DOMAIN file.output : i \in Nat /\ file.output[i] \in Names
  <1> DEFINE Inits  == [name : Names, storage : {"raw", "typed", "other"}]
             Inputs == [name : Names, elem : BOOLEAN, shape : BOOLEAN]
  <1>1. (\A e \in Inits : e.name \in Names) /\ (\A e \in Inputs : e.name \in Names)
    OBVIOUS
  <1>2. file.initializer \in Seq(Inits) /\ file.input \in Seq(Inputs) /\ file.output \in Seq(Names)
    BY FilesAssumption DEF ImporterTypeOK
  <1> HIDE DEF Inits, Inputs
  <1>3. /\ \A i \in DOMAIN file.initializer : i \in Nat /\ file.initializer[i] \in Inits
        /\ \A i \in DOMAIN file.input : i \in Nat /\ file.input[i] \in Inputs
        /\ \A i \in DOMAIN file.output : i \in Nat /\ file.output[i] \in Names
    BY <1>2
  <1> QED
    BY <1>1, <1>3

\* What a node's entry in the file hands to add_node.
LEMMA NodeArgs ==
    ASSUME ImporterTypeOK, file # Unreadable, next \in DOMAIN file.node
    PROVE  LET node == file.node[next]
           IN  /\ node.name \in NodeNames \cup {Unnamed}
               /\ node.input \in Seq(Names) /\ node.output \in Seq(Names)
               /\ Given(node.input) \in Seq(Names)
  <1> DEFINE Entries == [name : NodeNames \cup {Unnamed}, input : Seq(Names), output : Seq(Names),
                         attribute : Seq([name : STRING, kept : BOOLEAN])]
  <1>1. \A e \in Entries : /\ e.name \in NodeNames \cup {Unnamed}
                           /\ e.input \in Seq(Names) /\ e.output \in Seq(Names)
    OBVIOUS
  <1>2. file.node \in Seq(Entries)
    BY FilesAssumption DEF ImporterTypeOK
  <1> HIDE DEF Entries
  <1>3. file.node[next] \in Entries
    BY <1>2
  <1> QED
    BY <1>1, <1>3, GivenIsPrefix

\* What add_node does to the memory when the importer calls it.
LEMMA ImportNodeEffect ==
    ASSUME ImporterTypeOK, file # Unreadable, ImportNode
    PROVE  LET ins  == Ptrs(Given(file.node[next].input))
               outs == Ptrs(file.node[next].output)
           IN  /\ TypeOK'
               /\ \A v \in Elems(ins) \cup Elems(outs) : v \in Value /\ v \in Owned(builder)'
               /\ \A v \in Owned(builder) : v \in Owned(builder)'
               /\ \A v \in Owned(builder)' : v \in Owned(builder) \/ v \in Elems(ins) \cup Elems(outs)
               /\ NewNode(builder) \in Node
               /\ ~Has(nodes_, NewNode(builder)) /\ Has(nodes_', NewNode(builder))
               /\ At(nodes_', NewNode(builder)).inputs = ins /\ At(nodes_', NewNode(builder)).outputs = outs
               /\ \A n \in Node : /\ Has(nodes_, n) => Has(nodes_', n) /\ At(nodes_', n) = At(nodes_, n)
                                  /\ Has(nodes_', n) => n = NewNode(builder) \/ Has(nodes_, n)
               /\ \A v \in Value : consumers'[v] = IF v \in Elems(ins)
                                      THEN consumers[v] \cup {NewNode(builder)} ELSE consumers[v]
               /\ \A v \in Value : producer'[v] = IF v \in Linked(outs) THEN NewNode(builder) ELSE producer[v]
               /\ Linked(outs) \subseteq Elems(outs)
               /\ ~Throws(outs) => Linked(outs) = Elems(outs) /\ \A v \in Elems(outs) : producer[v] = Null
  <1> DEFINE name   == file.node[next].name
             given  == Given(file.node[next].input)
             ins    == Ptrs(given)
             outs   == Ptrs(file.node[next].output)
             record == [name |-> NameFor(builder, name), inputs |-> ins, outputs |-> outs]
  <1>1. /\ name \in NodeNames \cup {Unnamed}
        /\ given \in Seq(Names) /\ file.node[next].output \in Seq(Names)
    BY NodeArgs DEF ImportNode
  <1>2. /\ ins \in Seq(Value) /\ Elems(ins) = {builder} \X Elems(given)
        /\ outs \in Seq(Value) /\ Elems(outs) = {builder} \X Elems(file.node[next].output)
        /\ Elems(given) \subseteq Names /\ Elems(file.node[next].output) \subseteq Names
    BY <1>1, PtrsOfNames
  <1>3. /\ values_' = [values_ EXCEPT ![builder] = @ \cup Elems(given) \cup Elems(file.node[next].output)]
        /\ add_node(builder, name, ins, outs)
        /\ damaged' = damaged \cup Harmed(builder, ins, outs)
        /\ UNCHANGED marks
    BY DEF ImportNode
  <1> HIDE DEF name, given, ins, outs
  <1>4. TypeOK /\ builder \in Builders
    BY BuilderAssumption DEF ImporterTypeOK
  <1>5. record \in NodeRecord
    BY <1>1, <1>2, <1>4, NewNodeType
  <1>6. nodes_' = [nodes_ EXCEPT ![builder] = Append(@, record)] /\ nodes_ \in NodeLists
    BY <1>3, <1>4 DEF add_node, TypeOK, NodeLists
  <1>7. record.inputs = ins /\ record.outputs = outs
    OBVIOUS
  <1> HIDE DEF record
  <1>8. /\ NewNode(builder) \in Node
        /\ ~Has(nodes_, NewNode(builder)) /\ Has(nodes_', NewNode(builder))
        /\ At(nodes_', NewNode(builder)) = record
        /\ \A n \in Node : /\ Has(nodes_, n) => Has(nodes_', n) /\ At(nodes_', n) = At(nodes_, n)
                           /\ Has(nodes_', n) => n = NewNode(builder) \/ Has(nodes_, n)
    BY <1>4, <1>5, <1>6, AppendNode
  <1>9. /\ \A v \in Value : consumers'[v] = IF v \in Elems(ins)
                               THEN consumers[v] \cup {NewNode(builder)} ELSE consumers[v]
        /\ \A v \in Value : producer'[v] = IF v \in Linked(outs) THEN NewNode(builder) ELSE producer[v]
    BY <1>3 DEF add_node, NewNode
  <1>10. Linked(outs) \subseteq Elems(outs)
    BY DEF Linked, Elems
  <1>11. ASSUME ~Throws(outs)
         PROVE  Linked(outs) = Elems(outs) /\ \A v \in Elems(outs) : producer[v] = Null
    <2>1. \A i \in DOMAIN outs : ~Taken(outs, i) /\ producer[outs[i]] = Null
      BY <1>11 DEF Throws, Taken
    <2>2. \A j \in DOMAIN outs : \A i \in 1 .. j : i \in DOMAIN outs
      BY <1>2
    <2> QED
      BY <2>1, <2>2 DEF Linked, Elems
  <1>12. /\ Elems(ins) \cup Elems(outs) \subseteq Value
         /\ values_' \in [Builders -> SUBSET Names]
         /\ values_'[builder] = values_[builder] \cup Elems(given) \cup Elems(file.node[next].output)
    BY <1>2, <1>3, <1>4 DEF TypeOK, Value
  <1>13. /\ \A v \in Elems(ins) \cup Elems(outs) : v \in Owned(builder)'
         /\ \A v \in Owned(builder) : v \in Owned(builder)'
         /\ \A v \in Owned(builder)' : v \in Owned(builder) \/ v \in Elems(ins) \cup Elems(outs)
    BY <1>2, <1>12 DEF Owned
  <1>14. TypeOK'
    <2>1. nodes_[builder] \in Seq(NodeRecord)
      BY <1>4 DEF TypeOK
    <2>2. Append(nodes_[builder], record) \in Seq(NodeRecord)
      BY <1>5, <2>1
    <2>3. nodes_' \in [Builders -> Seq(NodeRecord)]
      BY <1>4, <1>6, <2>2 DEF TypeOK
    <2>4. producer' \in [Value -> Node \cup {Null}] /\ consumers' \in [Value -> SUBSET Node]
      BY <1>3, <1>4, <1>8 DEF add_node, NewNode, TypeOK
    <2>5. auto_node_counter_' \in [Builders -> Nat]
      BY <1>3, <1>4 DEF add_node, TypeOK
    <2>6. damaged' \subseteq Builders
      BY <1>3, <1>4, <1>10, <1>12 DEF Harmed, TypeOK, Value
    <2> QED
      BY <1>3, <1>4, <1>12, <2>3, <2>4, <2>5, <2>6 DEF TypeOK, marks
  <1> QED
    BY <1>7, <1>8, <1>9, <1>10, <1>11, <1>12, <1>13, <1>14 DEF ins, outs, given

LEMMA ImporterTypeStep ==
    ASSUME ImporterTypeOK, [ImporterNext]_ivars
    PROVE  ImporterTypeOK'
  <1>1. CASE UNCHANGED ivars
    BY <1>1 DEF ImporterTypeOK, TypeOK, ivars, vars, tensors
  <1>2. CASE Deserialize
    BY <1>2 DEF Deserialize, Enter, Phases, ImporterTypeOK, TypeOK, vars, tensors
  <1>3. CASE file # Unreadable /\ ImportInitializer
    <2> DEFINE init == file.initializer[next]
    <2>1. init.name \in Names /\ next \in Nat
      BY <1>3, DeclaredNames DEF ImportInitializer, Iteration
    <2>2. TypeOK'
      BY <1>3, <2>1, MarkType, RolesAssumption DEF ImportInitializer, ImporterTypeOK
    <2>3. /\ shape_' \in [Value -> Entry] /\ dtype_' \in [Value -> Entry] /\ data_' \in [Value -> Entry]
      <3> DEFINE entry == <<"initializer", next>>
      <3>1. /\ shape_' = [shape_ EXCEPT ![Ptr(init.name)] = entry]
            /\ dtype_' = [dtype_ EXCEPT ![Ptr(init.name)] = entry]
            /\ data_' = [data_ EXCEPT ![Ptr(init.name)] = entry] \/ data_' = data_
        BY <1>3 DEF ImportInitializer, set_shape, set_value_dtype, set_value_data
      <3>2. entry \in Entry
        BY <2>1 DEF Entry
      <3> QED
        BY <3>1, <3>2 DEF ImporterTypeOK
    <2> QED
      BY <1>3, <2>1, <2>2, <2>3 DEF ImportInitializer, Iteration, ImporterTypeOK
  <1>4. CASE file # Unreadable /\ ImportInput
    <2> DEFINE input == file.input[next]
    <2>1. input.name \in Names /\ next \in Nat
      BY <1>4, DeclaredNames DEF ImportInput, Iteration
    <2>2. TypeOK'
      <3>1. CASE input.name \in init_names
        BY <1>4, <2>1, <3>1 DEF ImportInput, get_or_create_value, ImporterTypeOK, TypeOK, marks, links
      <3>2. CASE input.name \notin init_names
        BY <1>4, <2>1, <3>2, MarkType, RolesAssumption DEF ImportInput, ImporterTypeOK
      <3> QED
        BY <3>1, <3>2
    <2>3. shape_' \in [Value -> Entry] /\ dtype_' \in [Value -> Entry]
      <3> DEFINE entry == <<"input", next>>
      <3>1. /\ shape_' = [shape_ EXCEPT ![Ptr(input.name)] = entry] \/ shape_' = shape_
            /\ dtype_' = [dtype_ EXCEPT ![Ptr(input.name)] = entry] \/ dtype_' = dtype_
        BY <1>4 DEF ImportInput, set_shape, set_value_dtype
      <3>2. entry \in Entry
        BY <2>1 DEF Entry
      <3> QED
        BY <3>1, <3>2 DEF ImporterTypeOK
    <2> QED
      BY <1>4, <2>1, <2>2, <2>3 DEF ImportInput, Iteration, ImporterTypeOK
  <1>5. CASE file # Unreadable /\ ImportOutput
    <2>1. file.output[next] \in Names /\ next \in Nat
      BY <1>5, DeclaredNames DEF ImportOutput, Iteration
    <2>2. TypeOK'
      BY <1>5, <2>1, MarkType, RolesAssumption DEF ImportOutput, ImporterTypeOK
    <2> QED
      BY <1>5, <2>1, <2>2 DEF ImportOutput, Iteration, ImporterTypeOK, tensors
  <1>6. CASE file # Unreadable /\ RejectGap
    <2>1. Elems(Given(file.node[next].input)) \subseteq Names
      BY <1>6, NodeArgs, PtrsOfNames DEF RejectGap
    <2>2. TypeOK'
      BY <1>6, <2>1 DEF RejectGap, ImporterTypeOK, TypeOK, links, marks
    <2> QED
      BY <1>6, <2>2 DEF RejectGap, ImporterTypeOK, Phases, tensors
  <1>7. CASE file # Unreadable /\ ImportNode
    <2>1. TypeOK'
      BY <1>7, ImportNodeEffect
    <2> QED
      BY <1>7, <2>1 DEF ImportNode, ImporterTypeOK, Phases, tensors
  <1>8. CASE ParseAttribute \/ EndOfLoop \/ Verify
    BY <1>8 DEF ParseAttribute, EndOfLoop, Verify, Enter, Phases, ImporterTypeOK, TypeOK, vars, tensors
  <1> QED
    BY <1>1, <1>2, <1>3, <1>4, <1>5, <1>6, <1>7, <1>8 DEF ImporterNext, Step, Returned

LEMMA ImporterTypeCorrect == ImporterSpec => []ImporterTypeOK
  <1>1. ImporterInit => ImporterTypeOK
    BY DEF ImporterInit, Init, ImporterTypeOK, TypeOK, Phases, Entry
  <1>2. ImporterTypeOK /\ [ImporterNext]_ivars => ImporterTypeOK'
    BY ImporterTypeStep
  <1> QED
    BY <1>1, <1>2, PTL DEF ImporterSpec

-----------------------------------------------------------------------------
(* verify() *)

\* A value that does not exist yet has no links: what get_or_create_value makes fits any
\* graph that verify() accepts.
Unlinked == \A v \in Value : v \notin Owned(builder) /\ v[1] = builder => producer[v] = Null /\ consumers[v] = {}

\* The graph is consistent after every entry of the file, not only at the end.
AlwaysSound == Unlinked /\ (pc # "failed" => verify(builder))

\* A value more, without links.
LEMMA SoundCreate ==
    ASSUME TypeOK, Unlinked, verify_values_consistency(builder), verify_nodes_consistency(builder),
           NEW name \in Names, get_or_create_value(builder, name), UNCHANGED links
    PROVE  /\ Unlinked'
           /\ verify_values_consistency(builder)' /\ verify_nodes_consistency(builder)'
           /\ Owned(builder) \subseteq Owned(builder)' /\ Ptr(name) \in Owned(builder)'
  <1>1. values_'[builder] = values_[builder] \cup {name}
    BY BuilderAssumption DEF get_or_create_value, TypeOK
  <1>2. /\ Owned(builder) \subseteq Owned(builder)' /\ Ptr(name) \in Owned(builder)'
        /\ Owned(builder)' = Owned(builder) \cup {Ptr(name)}
    BY <1>1 DEF Owned, Ptr
  <1>3. \A v \in Owned(builder)' : v \in Owned(builder) \/ (producer[v] = Null /\ consumers[v] = {})
    <2>1. Ptr(name) \in Value /\ Ptr(name)[1] = builder
      BY BuilderAssumption DEF Ptr, Value
    <2> QED
      BY <1>2, <2>1 DEF Unlinked
  <1>4. producer' = producer /\ consumers' = consumers /\ nodes_' = nodes_
    BY DEF links
  <1>5. NodesOf(builder)' = NodesOf(builder) /\ \A n : NodeAt(n)' = NodeAt(n)
    BY <1>4 DEF NodesOf, NodeAt
  <1>6. verify_values_consistency(builder)'
    BY <1>3, <1>4, <1>5 DEF verify_values_consistency
  <1>7. verify_nodes_consistency(builder)'
    BY <1>2, <1>4, <1>5 DEF verify_nodes_consistency
  <1> QED
    BY <1>2, <1>4, <1>6, <1>7 DEF Unlinked

\* Looking up and marking, at once.
LEMMA SoundMark ==
    ASSUME TypeOK, Unlinked, verify(builder), NEW name \in Names,
           get_or_create_value(builder, name), UNCHANGED links,
           UNCHANGED marks \/ \E role \in Roles : mark_as(role, builder, Ptr(name))
    PROVE  Unlinked' /\ verify(builder)'
  <1>1. /\ Unlinked' /\ verify_values_consistency(builder)' /\ verify_nodes_consistency(builder)'
        /\ Owned(builder) \subseteq Owned(builder)' /\ Ptr(name) \in Owned(builder)'
    BY SoundCreate DEF verify
  <1>2. ASSUME NEW r \in Roles
        PROVE  verify_marks(r, builder)'
    <2>1. verify_marks(r, builder)
      BY DEF verify
    <2>2. CASE UNCHANGED marks
      BY <1>1, <2>1, <2>2 DEF verify_marks, marks
    <2>3. ASSUME NEW role \in Roles, mark_as(role, builder, Ptr(name))
          PROVE  verify_marks(r, builder)'
      <3> DEFINE old == listed[role][builder]
                 new == IF Ptr(name) \in Elems(old) THEN old ELSE Append(old, Ptr(name))
      <3>1. Ptr(name) \in Value /\ Ptr(name) # Null
        BY BuilderAssumption, NullAssumption DEF Ptr, Value
      <3>2. /\ listed' = [listed EXCEPT ![role][builder] = new]
            /\ flagged' = [flagged EXCEPT ![role] = @ \cup {Ptr(name)}]
        BY <2>3, <3>1 DEF mark_as
      <3>3. old \in Seq(Value) /\ builder \in Builders
        BY BuilderAssumption DEF TypeOK
      <3>4. CASE r # role
        <4>1. listed'[r] = listed[r] /\ flagged'[r] = flagged[r]
          BY <3>2, <3>4 DEF TypeOK
        <4> QED
          BY <1>1, <2>1, <4>1 DEF verify_marks
      <3>5. CASE r = role
        <4>1. listed'[r][builder] = new /\ flagged'[r] = flagged[r] \cup {Ptr(name)}
          BY <3>2, <3>3, <3>5 DEF TypeOK
        <4>2. CASE Ptr(name) \in Elems(old)
          BY <1>1, <2>1, <3>5, <4>1, <4>2 DEF verify_marks
        <4>3. CASE Ptr(name) \notin Elems(old)
          <5>1. /\ DOMAIN new = DOMAIN old \cup {Len(old) + 1} /\ Len(old) + 1 \notin DOMAIN old
                /\ new[Len(old) + 1] = Ptr(name)
                /\ \A i \in DOMAIN old : new[i] = old[i] /\ old[i] # Ptr(name)
            BY <3>1, <3>3, <4>3, AppendFacts DEF Elems
          <5> HIDE DEF new
          <5>2. \A i \in DOMAIN old : old[i] \in Owned(builder) /\ old[i] \in flagged[r]
            BY <2>1, <3>5 DEF verify_marks
          <5>3. \A i, j \in DOMAIN old : old[i] = old[j] => i = j
            BY <2>1, <3>5 DEF verify_marks
          <5>4. \A i \in DOMAIN new : new[i] \in Owned(builder)' /\ new[i] \in flagged'[r]
            BY <1>1, <4>1, <5>1, <5>2
          <5>5. \A i, j \in DOMAIN new : new[i] = new[j] => i = j
            BY <5>1, <5>3
          <5> QED
            BY <4>1, <5>4, <5>5 DEF verify_marks
        <4> QED
          BY <4>2, <4>3
      <3> QED
        BY <3>4, <3>5
    <2> QED
      BY <2>2, <2>3
  <1> QED
    BY <1>1, <1>2 DEF verify

\* A node of which every output is new: add_node has not thrown.
LEMMA SoundNode ==
    ASSUME ImporterTypeOK, Unlinked, verify(builder), file # Unreadable, ImportNode,
           ~Throws(Ptrs(file.node[next].output))
    PROVE  verify(builder)'
  <1> DEFINE ins  == Ptrs(Given(file.node[next].input))
             outs == Ptrs(file.node[next].output)
             node == NewNode(builder)
  <1>1. /\ TypeOK'
        /\ \A v \in Elems(ins) \cup Elems(outs) : v \in Value /\ v \in Owned(builder)'
        /\ \A v \in Owned(builder) : v \in Owned(builder)'
        /\ \A v \in Owned(builder)' : v \in Owned(builder) \/ v \in Elems(ins) \cup Elems(outs)
        /\ node \in Node /\ ~Has(nodes_, node) /\ Has(nodes_', node)
        /\ At(nodes_', node).inputs = ins /\ At(nodes_', node).outputs = outs
        /\ \A n \in Node : /\ Has(nodes_, n) => Has(nodes_', n) /\ At(nodes_', n) = At(nodes_, n)
                           /\ Has(nodes_', n) => n = node \/ Has(nodes_, n)
        /\ \A v \in Value : consumers'[v] = IF v \in Elems(ins)
                               THEN consumers[v] \cup {node} ELSE consumers[v]
        /\ \A v \in Value : producer'[v] = IF v \in Elems(outs) THEN node ELSE producer[v]
        /\ \A v \in Elems(outs) : producer[v] = Null
    BY ImportNodeEffect
  <1>2. node[1] = builder
    BY DEF NewNode
  <1> HIDE DEF ins, outs, node
  <1>3. /\ \A n : n \in NodesOf(builder) <=> n \in Node /\ n[1] = builder /\ Has(nodes_, n)
        /\ \A n : n \in NodesOf(builder)' <=> n \in Node /\ n[1] = builder /\ Has(nodes_', n)
    BY <1>1, NodePointers, BuilderAssumption DEF ImporterTypeOK, TypeOK, NodesOf, NodeLists
  <1>4. /\ \A n \in NodesOf(builder) : n \in NodesOf(builder)' /\ n # node /\ At(nodes_', n) = NodeAt(n)
        /\ \A n \in NodesOf(builder)' : n = node \/ n \in NodesOf(builder)
        /\ node \in NodesOf(builder)'
    BY <1>1, <1>2, <1>3 DEF NodeAt, At
  <1>5. /\ \A v \in Owned(builder) : v \in Value /\ v[1] = builder
        /\ \A v \in Owned(builder)' : v \in Value /\ v[1] = builder
    BY <1>1, BuilderAssumption DEF Owned, ImporterTypeOK, TypeOK, Value
  <1>6. \A v \in Owned(builder)' :
            /\ producer[v] # Null => v \in Owned(builder)
            /\ consumers[v] # {} => v \in Owned(builder)
    BY <1>5 DEF Unlinked
  <1>7. verify_values_consistency(builder)'
    <2> SUFFICES ASSUME NEW v \in Owned(builder)'
                 PROVE  /\ producer'[v] # Null => /\ producer'[v] \in NodesOf(builder)'
                                                  /\ v \in Elems(At(nodes_', producer'[v]).outputs)
                        /\ \A n \in consumers'[v] : n \in NodesOf(builder)' /\ v \in Elems(At(nodes_', n).inputs)
      BY DEF verify_values_consistency, NodeAt, At
    <2>1. v \in Owned(builder) =>
            /\ producer[v] # Null => producer[v] \in NodesOf(builder) /\ v \in Elems(NodeAt(producer[v]).outputs)
            /\ \A n \in consumers[v] : n \in NodesOf(builder) /\ v \in Elems(NodeAt(n).inputs)
      BY DEF verify, verify_values_consistency
    <2>2. ASSUME producer'[v] # Null
          PROVE  producer'[v] \in NodesOf(builder)' /\ v \in Elems(At(nodes_', producer'[v]).outputs)
      <3>1. CASE v \in Elems(outs)
        BY <1>1, <1>4, <1>5, <3>1
      <3>2. CASE v \notin Elems(outs)
        <4>1. producer'[v] = producer[v] /\ v \in Owned(builder)
          BY <1>1, <1>5, <1>6, <2>2, <3>2
        <4>2. producer[v] \in NodesOf(builder) /\ v \in Elems(NodeAt(producer[v]).outputs)
          BY <2>1, <2>2, <4>1
        <4> QED
          BY <1>4, <4>1, <4>2
      <3> QED
        BY <3>1, <3>2
    <2>3. ASSUME NEW n \in consumers'[v]
          PROVE  n \in NodesOf(builder)' /\ v \in Elems(At(nodes_', n).inputs)
      <3>1. CASE n \in consumers[v]
        <4>1. n \in NodesOf(builder) /\ v \in Elems(NodeAt(n).inputs)
          BY <1>6, <2>1, <3>1
        <4>2. n \in NodesOf(builder)' /\ At(nodes_', n) = NodeAt(n)
          BY <1>4, <4>1
        <4> QED
          BY <4>1, <4>2
      <3>2. CASE n \notin consumers[v]
        <4>1. consumers'[v] = IF v \in Elems(ins) THEN consumers[v] \cup {node} ELSE consumers[v]
          BY <1>1, <1>5
        <4>2. n = node /\ v \in Elems(ins)
          BY <2>3, <3>2, <4>1
        <4> QED
          BY <1>1, <1>4, <4>2
      <3> QED
        BY <3>1, <3>2
    <2> QED
      BY <2>2, <2>3
  <1>8. verify_nodes_consistency(builder)'
    <2> SUFFICES ASSUME NEW n \in NodesOf(builder)'
                 PROVE  /\ \A v \in Elems(At(nodes_', n).inputs)  : v \in Owned(builder)' /\ n \in consumers'[v]
                        /\ \A v \in Elems(At(nodes_', n).outputs) : v \in Owned(builder)' /\ producer'[v] = n
      BY DEF verify_nodes_consistency, NodeAt, At
    <2>1. CASE n = node
      BY <1>1, <1>4, <2>1
    <2>2. CASE n # node
      <3>1. n \in NodesOf(builder) /\ n \in Node /\ At(nodes_', n) = NodeAt(n)
        BY <1>3, <1>4, <2>2
      <3>2. /\ \A v \in Elems(NodeAt(n).inputs)  : v \in Owned(builder) /\ n \in consumers[v]
            /\ \A v \in Elems(NodeAt(n).outputs) : v \in Owned(builder) /\ producer[v] = n
        BY <3>1 DEF verify, verify_nodes_consistency
      <3> QED
        BY <1>1, <1>5, <3>1, <3>2, NullAssumption
    <2> QED
      BY <2>1, <2>2
  <1>9. \A r \in Roles : verify_marks(r, builder)'
    <2>1. listed' = listed /\ flagged' = flagged
      BY DEF ImportNode, marks
    <2> QED
      BY <1>1, <2>1 DEF verify, verify_marks
  <1> QED
    BY <1>7, <1>8, <1>9 DEF verify

LEMMA SoundStep ==
    ASSUME ImporterTypeOK, AlwaysSound, [ImporterNext]_ivars
    PROVE  AlwaysSound'
  <1>1. TypeOK /\ Unlinked
    BY DEF ImporterTypeOK, AlwaysSound
  <1>2. CASE UNCHANGED vars /\ (pc' # "failed" => pc # "failed")
    BY <1>2 DEF AlwaysSound, Unlinked, Owned, vars, verify, verify_values_consistency,
                verify_nodes_consistency, verify_marks, NodesOf, NodeAt
  <1>3. ASSUME pc # "failed", NEW name \in Names, get_or_create_value(builder, name), UNCHANGED links,
               UNCHANGED marks \/ \E role \in Roles : mark_as(role, builder, Ptr(name))
        PROVE  AlwaysSound'
    BY <1>1, <1>3, SoundMark DEF AlwaysSound
  <1>4. CASE file # Unreadable /\ ImportInitializer
    BY <1>3, <1>4, DeclaredNames, RolesAssumption DEF ImportInitializer, Iteration
  <1>5. CASE file # Unreadable /\ ImportInput
    BY <1>3, <1>5, DeclaredNames, RolesAssumption DEF ImportInput, Iteration
  <1>6. CASE file # Unreadable /\ ImportOutput
    BY <1>3, <1>6, DeclaredNames, RolesAssumption DEF ImportOutput, Iteration
  <1>7. CASE file # Unreadable /\ RejectGap
    <2>1. Owned(builder) \subseteq Owned(builder)'
      BY <1>1, <1>7, BuilderAssumption DEF RejectGap, TypeOK, Owned
    <2>2. Unlinked'
      BY <1>1, <1>7, <2>1 DEF RejectGap, Unlinked, links
    <2> QED
      BY <1>7, <2>2 DEF RejectGap, AlwaysSound
  <1>8. CASE file # Unreadable /\ ImportNode
    <2>1. Unlinked'
      BY <1>1, <1>8, ImportNodeEffect DEF Unlinked
    <2>2. pc' # "failed" => verify(builder)'
      <3>1. ~Throws(Ptrs(file.node[next].output)) \/ pc' = "failed"
        BY <1>8 DEF ImportNode
      <3>2. verify(builder)
        BY <1>8 DEF ImportNode, AlwaysSound
      <3> QED
        BY <1>1, <1>8, <3>1, <3>2, SoundNode
    <2> QED
      BY <2>1, <2>2 DEF AlwaysSound
  <1>9. CASE Deserialize \/ ParseAttribute \/ EndOfLoop \/ Verify \/ UNCHANGED ivars
    BY <1>2, <1>9 DEF Deserialize, ParseAttribute, EndOfLoop, Verify, Enter, ivars
  <1> QED
    BY <1>4, <1>5, <1>6, <1>7, <1>8, <1>9 DEF ImporterNext, Step, Returned

LEMMA SoundInit == ImporterInit => AlwaysSound
  <1> SUFFICES ASSUME Init
               PROVE  Unlinked /\ verify(builder)
    BY DEF ImporterInit, AlwaysSound
  <1>1. Unlinked
    BY DEF Init, Unlinked
  <1>2. Owned(builder) = {} /\ NodesOf(builder) = {}
    BY BuilderAssumption DEF Init, Owned, NodesOf
  <1>3. \A role \in Roles : verify_marks(role, builder)
    BY BuilderAssumption DEF Init, verify_marks
  <1> QED
    BY <1>1, <1>2, <1>3 DEF verify, verify_values_consistency, verify_nodes_consistency

\* The final verify() never throws: an inconsistent graph has made add_node throw before.
THEOREM VerifyAlwaysAccepts == ImporterSpec => []VerifyNeverThrows
  <1>1. ImporterInit => AlwaysSound
    BY SoundInit
  <1>2. ImporterTypeOK /\ AlwaysSound /\ [ImporterNext]_ivars => AlwaysSound'
    BY SoundStep
  <1>3. AlwaysSound => VerifyNeverThrows
    BY DEF AlwaysSound, VerifyNeverThrows
  <1> QED
    BY <1>1, <1>2, <1>3, ImporterTypeCorrect, PTL DEF ImporterSpec

-----------------------------------------------------------------------------
(* Shape, type and data of one entry *)

UniqueInitializers == \A i, j \in DOMAIN file.initializer :
    file.initializer[i].name = file.initializer[j].name => i = j

\* Only initializers have data, init_names has the name of every one that was read, and
\* none of those still to come while names are unique.
DataSettled == file # Unreadable /\ UniqueInitializers =>
    /\ \A v \in Value : data_[v] # Undeclared =>
          /\ v[2] \in init_names
          /\ shape_[v] = data_[v] /\ dtype_[v] = data_[v]
    /\ pc = "deserialize" => init_names = {}
    /\ pc = "initializers" => init_names \subseteq {file.initializer[i].name : i \in 1 .. next - 1}

LEMMA DataStep ==
    ASSUME ImporterTypeOK, DataSettled, [ImporterNext]_ivars
    PROVE  DataSettled'
  <1> SUFFICES ASSUME file' # Unreadable, UniqueInitializers'
               PROVE  /\ \A v \in Value : data_'[v] # Undeclared =>
                            /\ v[2] \in init_names'
                            /\ shape_'[v] = data_'[v] /\ dtype_'[v] = data_'[v]
                      /\ pc' = "deserialize" => init_names' = {}
                      /\ pc' = "initializers" =>
                            init_names' \subseteq {file'.initializer[i].name : i \in 1 .. next' - 1}
    BY DEF DataSettled
  <1>1. file' = file
    BY DEF ImporterNext, Step, Returned, ivars, Deserialize, ImportInitializer, ImportInput,
           ImportOutput, RejectGap, ParseAttribute, ImportNode, EndOfLoop, Verify
  <1>2. /\ \A v \in Value : data_[v] # Undeclared =>
              /\ v[2] \in init_names
              /\ shape_[v] = data_[v] /\ dtype_[v] = data_[v]
        /\ pc = "deserialize" => init_names = {}
        /\ pc = "initializers" => init_names \subseteq {file.initializer[i].name : i \in 1 .. next - 1}
        /\ UniqueInitializers
    BY <1>1 DEF DataSettled, UniqueInitializers
  <1>3. CASE ImportInitializer
    <2> DEFINE init  == file.initializer[next]
               entry == <<"initializer", next>>
    <2>1. /\ pc = "initializers" /\ pc' = pc /\ next \in DOMAIN file.initializer /\ next' = next + 1
          /\ init_names' = init_names \cup {init.name}
          /\ shape_' = [shape_ EXCEPT ![Ptr(init.name)] = entry]
          /\ dtype_' = [dtype_ EXCEPT ![Ptr(init.name)] = entry]
          /\ data_' = [data_ EXCEPT ![Ptr(init.name)] = entry] \/ data_' = data_
      BY <1>3 DEF ImportInitializer, Iteration, set_shape, set_value_dtype, set_value_data
    <2>2. \A i \in 1 .. next - 1 : i \in DOMAIN file.initializer /\ i # next
      <3>1. file.initializer \in Seq([name : Names, storage : {"raw", "typed", "other"}])
        BY <1>1, FilesAssumption DEF ImporterTypeOK
      <3>2. DOMAIN file.initializer = 1 .. Len(file.initializer) /\ Len(file.initializer) \in Nat
        BY <3>1
      <3> QED
        BY <2>1, <3>2
    <2>3. init.name \notin init_names
      BY <1>2, <2>1, <2>2 DEF UniqueInitializers
    <2>4. init.name \in Names /\ next \in Nat \ {0}
      BY <1>1, <2>1, DeclaredNames DEF ImporterTypeOK
    <2>5. init_names' \subseteq {file'.initializer[i].name : i \in 1 .. next' - 1}
      BY <1>1, <1>2, <2>1, <2>4
    <2>6. \A v \in Value : data_'[v] # Undeclared =>
              v[2] \in init_names' /\ shape_'[v] = data_'[v] /\ dtype_'[v] = data_'[v]
      <3> SUFFICES ASSUME NEW v \in Value, data_'[v] # Undeclared
                   PROVE  v[2] \in init_names' /\ shape_'[v] = data_'[v] /\ dtype_'[v] = data_'[v]
        OBVIOUS
      <3> HIDE DEF init, entry
      <3>1. CASE v = Ptr(init.name)
        <4>1. v[2] = init.name
          BY <3>1 DEF Ptr
        <4>2. data_[v] = Undeclared
          BY <1>2, <2>3, <4>1
        <4> QED
          BY <2>1, <3>1, <4>1, <4>2 DEF ImporterTypeOK
      <3>2. CASE v # Ptr(init.name)
        BY <1>2, <2>1, <3>2 DEF ImporterTypeOK
      <3> QED
        BY <3>1, <3>2
    <2> QED
      BY <2>1, <2>5, <2>6
  <1>4. CASE ImportInput
    <2> DEFINE input == file.input[next]
    <2>1. /\ pc = "inputs" /\ pc' = pc /\ UNCHANGED <<init_names, data_>>
          /\ \/ UNCHANGED <<shape_, dtype_>>
             \/ /\ input.name \notin init_names
                /\ shape_' = shape_ \/ shape_' = [shape_ EXCEPT ![Ptr(input.name)] = <<"input", next>>]
                /\ dtype_' = dtype_ \/ dtype_' = [dtype_ EXCEPT ![Ptr(input.name)] = <<"input", next>>]
      BY <1>4 DEF ImportInput, Iteration, set_shape, set_value_dtype
    <2>2. \A v \in Value : data_[v] # Undeclared /\ input.name \notin init_names => v # Ptr(input.name)
      BY <1>2 DEF Ptr
    <2> HIDE DEF input
    <2> QED
      BY <1>2, <2>1, <2>2 DEF ImporterTypeOK
  <1>5. CASE Deserialize
    BY <1>2, <1>5 DEF Deserialize, Enter, tensors
  <1>6. CASE ImportOutput \/ RejectGap \/ ParseAttribute \/ ImportNode \/ EndOfLoop \/ Verify
    BY <1>2, <1>6 DEF ImportOutput, RejectGap, ParseAttribute, ImportNode, EndOfLoop, Verify, Enter, Iteration, tensors
  <1>7. CASE UNCHANGED ivars
    BY <1>2, <1>7 DEF ivars, tensors
  <1> QED
    BY <1>3, <1>4, <1>5, <1>6, <1>7 DEF ImporterNext, Step, Returned

\* The bytes of a tensor are read with the shape and the type they were stored with.
THEOREM DataAlwaysMatchesType == ImporterSpec => []DataMatchesType
  <1>1. ImporterInit => DataSettled
    BY DEF ImporterInit, DataSettled
  <1>2. ImporterTypeOK /\ DataSettled /\ [ImporterNext]_ivars => DataSettled'
    BY DataStep
  <1>3. DataSettled => DataMatchesType
    BY DEF DataSettled, UniqueInitializers, DataMatchesType
  <1> QED
    BY <1>1, <1>2, <1>3, ImporterTypeCorrect, PTL DEF ImporterSpec


-----------------------------------------------------------------------------
(* Lists by their positions *)

\* The k-th of some positions.
Nth(where, k) == CHOOSE i \in {j \in where : Cardinality({h \in where : h <= j}) = k} : TRUE

\* The operators of the instance are those of the modules it was made from.
LEMMA SameNumbers ==
    ASSUME NEW where
    PROVE  Contract!Cardinality(where) = Cardinality(where) /\ \A k : Contract!Nth(where, k) = Nth(where, k)
  <1>1. \A S : Contract!IsFiniteSet(S) = IsFiniteSet(S)
    BY Zenon DEF Contract!IsFiniteSet, IsFiniteSet
  <1>2. \A S : Contract!Cardinality(S) = Cardinality(S)
    BY <1>1, Zenon DEF Contract!Cardinality, Cardinality
  <1>3. \A k : {j \in where : Contract!Cardinality({h \in where : h <= j}) = k}
                 = {j \in where : Cardinality({h \in where : h <= j}) = k}
    BY <1>2
  <1> QED
    BY <1>2, <1>3, Zenon DEF Contract!Nth, Nth

\* A position behind all others is the last of them.
LEMMA NthGrows ==
    ASSUME NEW n \in Nat, NEW where \in SUBSET (1 .. n - 1)
    PROVE  /\ Cardinality(where) \in Nat
           /\ Cardinality(where \cup {n}) = Cardinality(where) + 1
           /\ \A k \in 1 .. Cardinality(where) : Nth(where \cup {n}, k) = Nth(where, k)
           /\ Nth(where \cup {n}, Cardinality(where) + 1) = n
  <1> DEFINE more == where \cup {n}
             size == Cardinality(where)
             Upto(set, j) == {h \in set : h <= j}
  <1>1. IsFiniteSet(where) /\ size \in Nat
    <2>1. IsFiniteSet(1 .. n - 1)
      BY FS_Interval
    <2> QED
      BY <2>1, FS_Subset, FS_CardinalityType
  <1>2. n \notin where /\ \A h \in where : h \in Nat /\ h < n
    OBVIOUS
  <1>3. Cardinality(more) = size + 1
    BY <1>1, <1>2, FS_AddElement
  <1>4. \A j \in where : Upto(more, j) = Upto(where, j)
    BY <1>2
  <1>5. Upto(more, n) = more
    <2>1. \A h \in more : h <= n
      BY <1>2
    <2> QED
      BY <2>1
  <1>6. \A j \in where : Cardinality(Upto(where, j)) <= size
    <2>1. \A j \in where : Upto(where, j) \subseteq where
      OBVIOUS
    <2> HIDE DEF Upto
    <2> QED
      BY <1>1, <2>1, FS_Subset
  <1> HIDE DEF Upto, more
  <1>7. ASSUME NEW k \in 1 .. size
        PROVE  {j \in more : Cardinality(Upto(more, j)) = k} = {j \in where : Cardinality(Upto(where, j)) = k}
    <2>1. \A j \in more : j = n \/ j \in where
      BY DEF more
    <2>2. \A j \in where : j \in more
      BY DEF more
    <2>3. Cardinality(Upto(more, n)) # k
      BY <1>1, <1>3, <1>5
    <2> QED
      BY <1>4, <2>1, <2>2, <2>3
  <1>8. {j \in more : Cardinality(Upto(more, j)) = size + 1} = {n}
    <2>1. n \in more /\ \A j \in more : j = n \/ j \in where
      BY DEF more
    <2>2. \A j \in where : Cardinality(Upto(more, j)) # size + 1
      <3>1. ASSUME NEW j \in where PROVE Cardinality(Upto(more, j)) <= size
        BY <1>4, <1>6
      <3>2. size + 1 > size /\ ~(size + 1 <= size)
        BY <1>1
      <3> QED
        BY <3>1, <3>2
    <2> QED
      BY <1>3, <1>5, <2>1, <2>2
  <1>9. \A k \in 1 .. size : Nth(more, k) = Nth(where, k)
    BY <1>7 DEF Nth, Upto
  <1>10. Nth(more, size + 1) = n
    <2>1. Nth(more, size + 1) = CHOOSE i \in {n} : TRUE
      BY <1>8 DEF Nth, Upto
    <2> QED
      BY <2>1
  <1> QED
    BY <1>1, <1>3, <1>9, <1>10 DEF more

\* All positions up to m are in their own order.
LEMMA NthOfAll ==
    ASSUME NEW m \in Nat
    PROVE  Cardinality(1 .. m) = m /\ \A k \in 1 .. m : Nth(1 .. m, k) = k
  <1>1. \A j \in 0 .. m : Cardinality(1 .. j) = j
    BY FS_Interval
  <1>2. ASSUME NEW k \in 1 .. m
        PROVE  Nth(1 .. m, k) = k
    <2>1. \A j \in 1 .. m : {h \in 1 .. m : h <= j} = 1 .. j /\ Cardinality(1 .. j) = j
      BY <1>1
    <2>2. {j \in 1 .. m : Cardinality({h \in 1 .. m : h <= j}) = k} = {k}
      <3>1. \A j \in 1 .. m : Cardinality({h \in 1 .. m : h <= j}) = j
        BY <2>1
      <3> HIDE DEF Nth
      <3> QED
        BY <3>1, Zenon
    <2>3. Nth(1 .. m, k) = CHOOSE i \in {k} : TRUE
      BY <2>2 DEF Nth
    <2> QED
      BY <2>3
  <1> QED
    BY <1>1, <1>2

\* list holds the values of s at the positions where, and they are all the values of s at
\* the positions marked.
Lists(list, s, where, marked) ==
    /\ Len(list) = Cardinality(where)
    /\ \A k \in 1 .. Len(list) : list[k] = Ptr(s[Nth(where, k)])
    /\ Elems(list) = {Ptr(s[i]) : i \in marked}

\* What marking a value makes of a list, and of the positions it was listed at.
Marked(list, v) == IF v \in Elems(list) THEN list ELSE Append(list, v)
Places(s, n, where, marked) == IF \E i \in marked : s[i] = s[n] THEN where ELSE where \cup {n}

\* Marking the value of the next position keeps a list the list of its positions.
LEMMA ListGrows ==
    ASSUME NEW s, NEW n \in Nat, NEW where \in SUBSET (1 .. n - 1), NEW marked \in SUBSET (1 .. n - 1),
           NEW list \in Seq(Value), Ptr(s[n]) \in Value, Lists(list, s, where, marked)
    PROVE  Lists(Marked(list, Ptr(s[n])), s, Places(s, n, where, marked), marked \cup {n})
  <1>1. Ptr(s[n]) \in Elems(list) <=> \E i \in marked : s[i] = s[n]
    BY DEF Lists, Ptr
  <1>2. CASE Ptr(s[n]) \in Elems(list)
    <2>1. {Ptr(s[i]) : i \in marked \cup {n}} = Elems(list)
      BY <1>2 DEF Lists
    <2>2. Marked(list, Ptr(s[n])) = list /\ Places(s, n, where, marked) = where
      BY <1>1, <1>2 DEF Marked, Places
    <2> QED
      BY <2>1, <2>2 DEF Lists
  <1>3. CASE Ptr(s[n]) \notin Elems(list)
    <2> DEFINE new == Append(list, Ptr(s[n]))
    <2>1. /\ Len(new) = Len(list) + 1 /\ Len(list) \in Nat /\ new[Len(list) + 1] = Ptr(s[n])
          /\ \A k \in 1 .. Len(list) : new[k] = list[k]
          /\ Elems(new) = Elems(list) \cup {Ptr(s[n])}
      BY AppendFacts
    <2> HIDE DEF new
    <2>2. Len(new) = Cardinality(where \cup {n})
      BY <2>1, NthGrows DEF Lists
    <2>3. \A k \in 1 .. Len(new) : new[k] = Ptr(s[Nth(where \cup {n}, k)])
      <3> TAKE k \in 1 .. Len(new)
      <3>1. CASE k \in 1 .. Len(list)
        BY <2>1, <3>1, NthGrows DEF Lists
      <3>2. CASE k = Len(list) + 1
        BY <2>1, <3>2, NthGrows DEF Lists
      <3> QED
        BY <2>1, <3>1, <3>2
    <2>4. Elems(new) = {Ptr(s[i]) : i \in marked \cup {n}}
      BY <2>1 DEF Lists
    <2>5. Marked(list, Ptr(s[n])) = new /\ Places(s, n, where, marked) = where \cup {n}
      BY <1>1, <1>3 DEF Marked, Places, new
    <2> QED
      BY <2>2, <2>3, <2>4, <2>5 DEF Lists
  <1> QED
    BY <1>2, <1>3

\* What the list holds in the end.
LEMMA ListIsChosen ==
    ASSUME NEW s, NEW where, NEW marked, NEW list \in Seq(Value), Lists(list, s, where, marked)
    PROVE  NamesIn(list) = Contract!Chosen(s, where)
  <1>1. DOMAIN list = 1 .. Cardinality(where)
    BY DEF Lists
  <1>2. \A k \in DOMAIN list : list[k][2] = s[Nth(where, k)]
    BY DEF Lists, Ptr
  <1> QED
    BY <1>1, <1>2, SameNumbers DEF NamesIn, Contract!Chosen
-----------------------------------------------------------------------------
(* What has been read of the file *)

\* The number of entries of each list that have been read.
ReadInitializers == IF pc = "initializers" THEN next - 1
                    ELSE IF pc = "deserialize" THEN 0 ELSE Len(file.initializer)
ReadInputs  == IF pc = "inputs" THEN next - 1
               ELSE IF pc \in {"deserialize", "initializers"} THEN 0 ELSE Len(file.input)
ReadOutputs == IF pc = "outputs" THEN next - 1
               ELSE IF pc \in {"deserialize", "initializers", "inputs"} THEN 0 ELSE Len(file.output)
ReadNodes   == IF pc = "nodes" THEN next - 1
               ELSE IF pc \in {"verify", "done"} THEN Len(file.node) ELSE 0

InBounds ==
    /\ ReadInitializers \in 0 .. Len(file.initializer) /\ ReadInputs \in 0 .. Len(file.input)
    /\ ReadOutputs \in 0 .. Len(file.output) /\ ReadNodes \in 0 .. Len(file.node)
    /\ pc \in {"deserialize", "verify", "done"} => next = 1

NamesRead == init_names = {file.initializer[i].name : i \in 1 .. ReadInitializers}

ValuesRead == values_[builder] =
    {file.initializer[i].name : i \in 1 .. ReadInitializers}
        \cup {file.input[i].name : i \in 1 .. ReadInputs} \cup {file.output[i] : i \in 1 .. ReadOutputs}
        \cup UNION {Elems(Given(file.node[n].input)) \cup Elems(file.node[n].output) : n \in 1 .. ReadNodes}

\* The inputs that are no default values of initializers.
Proper(i) == ~Contract!IsInitializer(file, file.input[i].name)

ListsRead ==
    /\ LET s == Contract!NamesOf(file.initializer)
       IN  Lists(listed["initializer"][builder], s, Contract!Firsts(s) \cap (1 .. ReadInitializers),
                 1 .. ReadInitializers)
    /\ Lists(listed["input"][builder], Contract!NamesOf(file.input),
             Contract!DeclaredInputs(file) \cap (1 .. ReadInputs), {i \in 1 .. ReadInputs : Proper(i)})
    /\ Lists(listed["output"][builder], file.output, Contract!Firsts(file.output) \cap (1 .. ReadOutputs),
             1 .. ReadOutputs)

NodesRead ==
    /\ DOMAIN nodes_[builder] = 1 .. ReadNodes
    /\ \A n \in 1 .. ReadNodes : /\ nodes_[builder][n].inputs = Ptrs(Given(file.node[n].input))
                                  /\ nodes_[builder][n].outputs = Ptrs(file.node[n].output)
                                  /\ AfterGap(file.node[n].input) = {}

\* No two slots of the nodes read have one name.
OutputsApart == \A m, n \in 1 .. ReadNodes :
    \A j \in DOMAIN file.node[m].output, k \in DOMAIN file.node[n].output :
        file.node[m].output[j] = file.node[n].output[k] => m = n /\ j = k

\* The map that parse_attributes has filled from the first m entries.
AttributesUpTo(entries, m) ==
    [key \in {entries[i].name : i \in {j \in 1 .. m : entries[j].kept}} |->
        Contract!LastEntry("attribute", Contract!KeptAs(entries, key) \cap (1 .. m))]

AttributesRead ==
    /\ attributes_ = [n \in 1 .. ReadNodes |-> Contract!AttributesOf(file.node[n].attribute)]
    /\ IF pc = "nodes" /\ next \in DOMAIN file.node
       THEN /\ read \in 0 .. Len(file.node[next].attribute)
            /\ attrs = AttributesUpTo(file.node[next].attribute, read)
       ELSE attrs = NoAttributes /\ read = 0

\* The last of the initializers read that have the name, or else of the inputs among where.
LastRead(name, where) ==
    IF Contract!Initializing(file, name) \cap (1 .. ReadInitializers) # {}
    THEN Contract!LastEntry("initializer", Contract!Initializing(file, name) \cap (1 .. ReadInitializers))
    ELSE Contract!LastEntry("input", where \cap (1 .. ReadInputs))

Shaped(name) == {i \in Contract!Declaring(file, name) : file.input[i].shape}
Typed(name)  == {i \in Contract!Declaring(file, name) : file.input[i].elem}
Stored(name) == {i \in Contract!Initializing(file, name) : file.initializer[i].storage # "other"}

TensorsRead == \A name \in Names :
    /\ shape_[Ptr(name)] = LastRead(name, Shaped(name))
    /\ dtype_[Ptr(name)] = LastRead(name, Typed(name))
    /\ data_[Ptr(name)] = Contract!LastEntry("initializer", Stored(name) \cap (1 .. ReadInitializers))

\* What has been read is in the builder; an import that failed could not succeed.
ReadSoFar ==
    IF file = Unreadable THEN pc \in {"deserialize", "failed"}
    ELSE IF pc = "failed" THEN ~Contract!Importable(file)
    ELSE /\ InBounds /\ NamesRead /\ ValuesRead /\ ListsRead
         /\ NodesRead /\ OutputsApart /\ AttributesRead /\ TensorsRead

-----------------------------------------------------------------------------
(* One step of the import *)

\* The four lists of a file are sequences.
LEMMA FileLists ==
    ASSUME ImporterTypeOK, file # Unreadable
    PROVE  /\ DOMAIN file.initializer = 1 .. Len(file.initializer) /\ Len(file.initializer) \in Nat
           /\ DOMAIN file.input = 1 .. Len(file.input) /\ Len(file.input) \in Nat
           /\ DOMAIN file.output = 1 .. Len(file.output) /\ Len(file.output) \in Nat
           /\ DOMAIN file.node = 1 .. Len(file.node) /\ Len(file.node) \in Nat
           /\ \A n \in DOMAIN file.node :
                 /\ file.node[n].input \in Seq(Names) /\ file.node[n].output \in Seq(Names)
                 /\ DOMAIN file.node[n].attribute = 1 .. Len(file.node[n].attribute)
                 /\ Len(file.node[n].attribute) \in Nat
  <1> DEFINE Inits  == [name : Names, storage : {"raw", "typed", "other"}]
             Inputs == [name : Names, elem : BOOLEAN, shape : BOOLEAN]
             Attributes == [name : STRING, kept : BOOLEAN]
             Nodes == [name : NodeNames \cup {Unnamed}, input : Seq(Names), output : Seq(Names),
                       attribute : Seq(Attributes)]
  <1>1. /\ file.initializer \in Seq(Inits) /\ file.input \in Seq(Inputs)
        /\ file.output \in Seq(Names) /\ file.node \in Seq(Nodes)
    BY FilesAssumption DEF ImporterTypeOK
  <1>2. \A e \in Nodes : e.input \in Seq(Names) /\ e.output \in Seq(Names) /\ e.attribute \in Seq(Attributes)
    OBVIOUS
  <1> HIDE DEF Inits, Inputs, Attributes, Nodes
  <1>3. \A n \in DOMAIN file.node : file.node[n] \in Nodes
    BY <1>1
  <1>4. \A s \in Seq(Attributes) : DOMAIN s = 1 .. Len(s) /\ Len(s) \in Nat
    OBVIOUS
  <1> QED
    BY <1>1, <1>2, <1>3, <1>4

\* One step, and how much of which list it reads.
LEMMA StepReads ==
    ASSUME ImporterTypeOK, file # Unreadable, pc # "failed", InBounds,
           [ImporterNext]_ivars, pc' # "failed"
    PROVE  /\ file' = file /\ InBounds'
           /\ \/ /\ ImportInitializer
                 /\ next \in DOMAIN file.initializer
                 /\ ReadInitializers = next - 1 /\ ReadInitializers' = next
                 /\ ReadInputs = 0 /\ UNCHANGED <<ReadInputs, ReadOutputs, ReadNodes>>
              \/ /\ ImportInput
                 /\ next \in DOMAIN file.input
                 /\ ReadInputs = next - 1 /\ ReadInputs' = next
                 /\ ReadInitializers = Len(file.initializer)
                 /\ UNCHANGED <<ReadInitializers, ReadOutputs, ReadNodes>>
              \/ /\ ImportOutput
                 /\ next \in DOMAIN file.output
                 /\ ReadOutputs = next - 1 /\ ReadOutputs' = next
                 /\ UNCHANGED <<ReadInitializers, ReadInputs, ReadNodes>>
              \/ /\ ImportNode /\ ~Throws(Ptrs(file.node[next].output))
                 /\ next \in DOMAIN file.node
                 /\ ReadNodes = next - 1 /\ ReadNodes' = next
                 /\ UNCHANGED <<ReadInitializers, ReadInputs, ReadOutputs>>
              \/ /\ ParseAttribute
                 /\ UNCHANGED <<ReadInitializers, ReadInputs, ReadOutputs, ReadNodes>>
              \/ /\ UNCHANGED <<vars, init_names, tensors, parsing>>
                 /\ UNCHANGED <<ReadInitializers, ReadInputs, ReadOutputs, ReadNodes>>
                 /\ UNCHANGED <<pc, next>> \/ ~(pc = "nodes" /\ next \in DOMAIN file.node)
  <1> USE DEF InBounds, ReadInitializers, ReadInputs, ReadOutputs, ReadNodes
  <1>1. /\ DOMAIN file.initializer = 1 .. Len(file.initializer) /\ Len(file.initializer) \in Nat
        /\ DOMAIN file.input = 1 .. Len(file.input) /\ Len(file.input) \in Nat
        /\ DOMAIN file.output = 1 .. Len(file.output) /\ Len(file.output) \in Nat
        /\ DOMAIN file.node = 1 .. Len(file.node) /\ Len(file.node) \in Nat
    BY FileLists
  <1>2. next \in Nat \ {0}
    BY DEF ImporterTypeOK
  <1>3. CASE ImportInitializer
    <2>1. pc = "initializers" /\ next \in DOMAIN file.initializer /\ next' = next + 1 /\ UNCHANGED <<file, pc>>
      BY <1>3 DEF ImportInitializer, Iteration
    <2> QED
      BY <1>1, <1>2, <1>3, <2>1
  <1>4. CASE ImportInput
    <2>1. pc = "inputs" /\ next \in DOMAIN file.input /\ next' = next + 1 /\ UNCHANGED <<file, pc>>
      BY <1>4 DEF ImportInput, Iteration
    <2> QED
      BY <1>1, <1>2, <1>4, <2>1
  <1>5. CASE ImportOutput
    <2>1. pc = "outputs" /\ next \in DOMAIN file.output /\ next' = next + 1 /\ UNCHANGED <<file, pc>>
      BY <1>5 DEF ImportOutput, Iteration
    <2> QED
      BY <1>1, <1>2, <1>5, <2>1
  <1>6. CASE ImportNode
    <2>1. /\ pc = "nodes" /\ next \in DOMAIN file.node /\ next' = next + 1 /\ UNCHANGED <<file, pc>>
          /\ ~Throws(Ptrs(file.node[next].output))
      BY <1>6 DEF ImportNode
    <2> QED
      BY <1>1, <1>2, <1>6, <2>1
  <1>7. CASE ParseAttribute
    <2>1. UNCHANGED <<file, pc, next>>
      BY <1>7 DEF ParseAttribute
    <2> QED
      BY <1>7, <2>1
  <1>8. CASE Deserialize
    <2>1. /\ pc = "deserialize" /\ pc' = "initializers" /\ next' = 1
          /\ UNCHANGED <<file, vars, init_names, tensors, parsing>>
      BY <1>8 DEF Deserialize, Enter
    <2> QED
      BY <1>1, <2>1
  <1>9. CASE EndOfLoop
    <2>1. /\ next' = 1 /\ UNCHANGED <<file, vars, init_names, tensors, parsing>>
          /\ \/ next > Len(file.initializer) /\ pc = "initializers" /\ pc' = "inputs"
             \/ next > Len(file.input)       /\ pc = "inputs"  /\ pc' = "outputs"
             \/ next > Len(file.output)      /\ pc = "outputs" /\ pc' = "nodes"
             \/ next > Len(file.node)        /\ pc = "nodes"   /\ pc' = "verify"
      BY <1>9 DEF EndOfLoop, Enter
    <2> QED
      BY <1>1, <1>2, <2>1
  <1>10. CASE Verify
    <2>1. pc = "verify" /\ pc' = "done" /\ next' = 1 /\ UNCHANGED <<file, vars, init_names, tensors, parsing>>
      BY <1>10 DEF Verify, Enter
    <2> QED
      BY <1>1, <2>1
  <1>11. CASE UNCHANGED ivars
    <2>1. UNCHANGED <<vars, file, pc, next, init_names, tensors, parsing>>
      BY <1>11 DEF ivars
    <2> QED
      BY <2>1
  <1>12. CASE RejectGap
    BY <1>12 DEF RejectGap
  <1> QED
    BY <1>3, <1>4, <1>5, <1>6, <1>7, <1>8, <1>9, <1>10, <1>11, <1>12 DEF ImporterNext, Step, Returned

-----------------------------------------------------------------------------
(* Names, values and lists, step by step *)

\* An interval with one number more.
LEMMA OneMore ==
    ASSUME NEW n \in Nat \ {0}
    PROVE  1 .. n = (1 .. n - 1) \cup {n} /\ n \notin 1 .. n - 1 /\ n - 1 \in Nat
  OBVIOUS

\* init_names has the names of the initializers read.
LEMMA NamesReadStep ==
    ASSUME ImporterTypeOK, file # Unreadable, pc # "failed", InBounds, NamesRead,
           [ImporterNext]_ivars, pc' # "failed"
    PROVE  NamesRead'
  <1>1. file' = file
    BY StepReads
  <1>2. CASE ImportInitializer /\ ReadInitializers = next - 1 /\ ReadInitializers' = next
    <2>1. init_names' = init_names \cup {file.initializer[next].name} /\ next \in Nat \ {0}
      BY <1>2 DEF ImportInitializer, ImporterTypeOK
    <2>2. 1 .. next = (1 .. next - 1) \cup {next}
      BY <2>1, OneMore
    <2> QED
      BY <1>1, <1>2, <2>1, <2>2 DEF NamesRead
  <1>3. CASE init_names' = init_names /\ ReadInitializers' = ReadInitializers
    BY <1>1, <1>3 DEF NamesRead
  <1>4. ImportInput \/ ImportOutput \/ ImportNode \/ ParseAttribute => init_names' = init_names
    BY DEF ImportInput, ImportOutput, ImportNode, ParseAttribute
  <1>5. \/ ImportInitializer /\ ReadInitializers = next - 1 /\ ReadInitializers' = next
        \/ init_names' = init_names /\ ReadInitializers' = ReadInitializers
    BY <1>4, StepReads
  <1> QED
    BY <1>2, <1>3, <1>5

\* The values are those that the entries read have mentioned.
LEMMA ValuesReadStep ==
    ASSUME ImporterTypeOK, file # Unreadable, pc # "failed", InBounds, ValuesRead,
           [ImporterNext]_ivars, pc' # "failed"
    PROVE  ValuesRead'
  <1> DEFINE Inits(n) == {file.initializer[i].name : i \in 1 .. n}
             Ins(n)   == {file.input[i].name : i \in 1 .. n}
             Outs(n)  == {file.output[i] : i \in 1 .. n}
             Slots(n)    == Elems(Given(file.node[n].input)) \cup Elems(file.node[n].output)
             Nodes(n) == UNION {Slots(m) : m \in 1 .. n}
  <1>1. file' = file /\ next \in Nat \ {0} /\ builder \in Builders /\ values_ \in [Builders -> SUBSET Names]
    BY StepReads, BuilderAssumption DEF ImporterTypeOK, TypeOK
  <1>2. /\ Inits(next) = Inits(next - 1) \cup {file.initializer[next].name}
        /\ Ins(next) = Ins(next - 1) \cup {file.input[next].name}
        /\ Outs(next) = Outs(next - 1) \cup {file.output[next]}
        /\ Nodes(next) = Nodes(next - 1) \cup Slots(next)
    <2>1. 1 .. next = (1 .. next - 1) \cup {next}
      BY <1>1, OneMore
    <2> HIDE DEF Slots
    <2> QED
      BY <2>1
  <1>3. /\ values_[builder] = Inits(ReadInitializers) \cup Ins(ReadInputs) \cup Outs(ReadOutputs) \cup Nodes(ReadNodes)
        /\ ValuesRead' <=> values_'[builder] = Inits(ReadInitializers') \cup Ins(ReadInputs')
                                                  \cup Outs(ReadOutputs') \cup Nodes(ReadNodes')
    BY <1>1 DEF ValuesRead
  <1> HIDE DEF Inits, Ins, Outs, Nodes
  <1>4. CASE /\ ImportInitializer
             /\ ReadInitializers = next - 1 /\ ReadInitializers' = next
             /\ UNCHANGED <<ReadInputs, ReadOutputs, ReadNodes>>
    <2>1. values_'[builder] = values_[builder] \cup {file.initializer[next].name}
      BY <1>1, <1>4 DEF ImportInitializer, get_or_create_value
    <2> QED
      BY <1>2, <1>3, <1>4, <2>1
  <1>5. CASE /\ ImportInput
             /\ ReadInputs = next - 1 /\ ReadInputs' = next
             /\ UNCHANGED <<ReadInitializers, ReadOutputs, ReadNodes>>
    <2>1. values_'[builder] = values_[builder] \cup {file.input[next].name}
      BY <1>1, <1>5 DEF ImportInput, get_or_create_value
    <2> QED
      BY <1>2, <1>3, <1>5, <2>1
  <1>6. CASE /\ ImportOutput
             /\ ReadOutputs = next - 1 /\ ReadOutputs' = next
             /\ UNCHANGED <<ReadInitializers, ReadInputs, ReadNodes>>
    <2>1. values_'[builder] = values_[builder] \cup {file.output[next]}
      BY <1>1, <1>6 DEF ImportOutput, get_or_create_value
    <2> QED
      BY <1>2, <1>3, <1>6, <2>1
  <1>7. CASE /\ ImportNode
             /\ ReadNodes = next - 1 /\ ReadNodes' = next
             /\ UNCHANGED <<ReadInitializers, ReadInputs, ReadOutputs>>
    <2>1. values_'[builder] = values_[builder] \cup Slots(next)
      BY <1>1, <1>7 DEF ImportNode
    <2> HIDE DEF Slots
    <2> QED
      BY <1>2, <1>3, <1>7, <2>1
  <1>8. CASE UNCHANGED <<values_, ReadInitializers, ReadInputs, ReadOutputs, ReadNodes>>
    BY <1>3, <1>8
  <1>9. ParseAttribute \/ UNCHANGED vars => values_' = values_
    BY DEF ParseAttribute, vars
  <1> QED
    BY <1>4, <1>5, <1>6, <1>7, <1>8, <1>9, StepReads

\* One entry more of a list of values.
LEMMA MarkedList ==
    ASSUME TypeOK, NEW role \in Roles, NEW s, NEW n \in Nat \ {0}, s[n] \in Names,
           NEW where \in SUBSET (1 .. n - 1), NEW marked \in SUBSET (1 .. n - 1),
           Lists(listed[role][builder], s, where, marked),
           mark_as(role, builder, Ptr(s[n]))
    PROVE  /\ Lists(listed'[role][builder], s, Places(s, n, where, marked), marked \cup {n})
           /\ \A r \in Roles \ {role} : listed'[r][builder] = listed[r][builder]
  <1> DEFINE old == listed[role][builder]
             new == Marked(old, Ptr(s[n]))
  <1>1. Ptr(s[n]) \in Value /\ Ptr(s[n]) # Null /\ builder \in Builders
    BY BuilderAssumption, NullAssumption DEF Ptr, Value
  <1>2. listed' = [listed EXCEPT ![role][builder] = new]
    BY <1>1 DEF mark_as, Marked
  <1>3. old \in Seq(Value)
    BY <1>1 DEF TypeOK
  <1>4. listed'[role][builder] = new /\ \A r \in Roles \ {role} : listed'[r][builder] = listed[r][builder]
    <2> HIDE DEF new
    <2> QED
      BY <1>1, <1>2 DEF TypeOK
  <1>5. Lists(new, s, Places(s, n, where, marked), marked \cup {n})
    <2>1. Lists(old, s, where, marked) /\ n \in Nat
      OBVIOUS
    <2> HIDE DEF old
    <2> QED
      BY <1>1, <1>3, <2>1, ListGrows
  <1> QED
    BY <1>4, <1>5

\* A name is listed where it is mentioned first.
LEMMA FirstPlaces ==
    ASSUME NEW s, NEW n \in Nat \ {0}, n \in DOMAIN s
    PROVE  Places(s, n, Contract!Firsts(s) \cap (1 .. n - 1), 1 .. n - 1) = Contract!Firsts(s) \cap (1 .. n)
  <1>1. 1 .. n = (1 .. n - 1) \cup {n}
    BY OneMore
  <1>2. n \in Contract!Firsts(s) <=> ~\E i \in 1 .. n - 1 : s[i] = s[n]
    BY DEF Contract!Firsts
  <1> QED
    BY <1>1, <1>2 DEF Places

\* An input is listed when its name is mentioned first and is no initializer.
LEMMA InputPlaces ==
    ASSUME next \in Nat \ {0}, next \in DOMAIN file.input, DOMAIN file.input = 1 .. Len(file.input)
    PROVE  LET s == Contract!NamesOf(file.input)
               marked == {i \in 1 .. next - 1 : Proper(i)}
           IN  /\ Proper(next) =>
                     /\ Places(s, next, Contract!DeclaredInputs(file) \cap (1 .. next - 1), marked)
                          = Contract!DeclaredInputs(file) \cap (1 .. next)
                     /\ {i \in 1 .. next : Proper(i)} = marked \cup {next}
               /\ ~Proper(next) =>
                     /\ Contract!DeclaredInputs(file) \cap (1 .. next)
                          = Contract!DeclaredInputs(file) \cap (1 .. next - 1)
                     /\ {i \in 1 .. next : Proper(i)} = marked
  <1> DEFINE s == Contract!NamesOf(file.input)
  <1>1. 1 .. next = (1 .. next - 1) \cup {next} /\ next \notin 1 .. next - 1
    BY OneMore
  <1>2. \A i \in 1 .. next : i \in DOMAIN file.input /\ i \in DOMAIN s /\ s[i] = file.input[i].name
    BY DEF Contract!NamesOf
  <1>3. \A i \in 1 .. next : i \in Contract!DeclaredInputs(file) <=> i \in Contract!Firsts(s) /\ Proper(i)
    BY <1>2 DEF Contract!DeclaredInputs, Contract!Firsts, Proper
  <1>4. next \in Contract!Firsts(s) <=> ~\E i \in 1 .. next - 1 : s[i] = s[next]
    BY <1>1, <1>2 DEF Contract!Firsts
  <1>5. \A i \in 1 .. next - 1 : s[i] = s[next] => (Proper(i) <=> Proper(next))
    BY <1>1, <1>2 DEF Proper
  <1> HIDE DEF s
  <1>6. ASSUME Proper(next)
        PROVE  /\ Places(s, next, Contract!DeclaredInputs(file) \cap (1 .. next - 1), {i \in 1 .. next - 1 : Proper(i)})
                    = Contract!DeclaredInputs(file) \cap (1 .. next)
               /\ {i \in 1 .. next : Proper(i)} = {i \in 1 .. next - 1 : Proper(i)} \cup {next}
    <2>1. next \in Contract!DeclaredInputs(file) <=> ~\E i \in {h \in 1 .. next - 1 : Proper(h)} : s[i] = s[next]
      BY <1>1, <1>3, <1>4, <1>5, <1>6
    <2> QED
      BY <1>1, <1>6, <2>1 DEF Places
  <1>7. ASSUME ~Proper(next)
        PROVE  /\ Contract!DeclaredInputs(file) \cap (1 .. next) = Contract!DeclaredInputs(file) \cap (1 .. next - 1)
               /\ {i \in 1 .. next : Proper(i)} = {i \in 1 .. next - 1 : Proper(i)}
    <2>1. next \notin Contract!DeclaredInputs(file)
      BY <1>1, <1>3, <1>7
    <2> QED
      BY <1>1, <1>7, <2>1
  <1> QED
    BY <1>6, <1>7 DEF s

\* Each list has its values where they were mentioned first.
LEMMA ListsReadStep ==
    ASSUME ImporterTypeOK, file # Unreadable, pc # "failed", InBounds, NamesRead, ListsRead,
           [ImporterNext]_ivars, pc' # "failed"
    PROVE  ListsRead'
  <1> DEFINE inits == Contract!NamesOf(file.initializer)
             ins   == Contract!NamesOf(file.input)
             outs  == file.output
             I(list, n) == Lists(list, inits, Contract!Firsts(inits) \cap (1 .. n), 1 .. n)
             J(list, n) == Lists(list, ins, Contract!DeclaredInputs(file) \cap (1 .. n), {i \in 1 .. n : Proper(i)})
             O(list, n) == Lists(list, outs, Contract!Firsts(outs) \cap (1 .. n), 1 .. n)
  <1>1. /\ file' = file /\ next \in Nat \ {0} /\ TypeOK
        /\ {"input", "output", "initializer"} \subseteq Roles
    BY StepReads, RolesAssumption DEF ImporterTypeOK
  <1>2. /\ DOMAIN file.initializer = 1 .. Len(file.initializer)
        /\ DOMAIN file.input = 1 .. Len(file.input)
        /\ DOMAIN file.output = 1 .. Len(file.output)
    BY FileLists
  <1>3. /\ I(listed["initializer"][builder], ReadInitializers)
        /\ J(listed["input"][builder], ReadInputs)
        /\ O(listed["output"][builder], ReadOutputs)
    BY DEF ListsRead
  <1>4. /\ I(listed'["initializer"][builder], ReadInitializers')
        /\ J(listed'["input"][builder], ReadInputs')
        /\ O(listed'["output"][builder], ReadOutputs')
        => ListsRead'
    BY <1>1 DEF ListsRead, Proper
  <1>5. CASE /\ ImportInitializer /\ next \in DOMAIN file.initializer
             /\ ReadInitializers = next - 1 /\ ReadInitializers' = next
             /\ ReadInputs' = ReadInputs /\ ReadOutputs' = ReadOutputs
    <2>1. inits[next] = file.initializer[next].name /\ next \in DOMAIN inits /\ inits[next] \in Names
      BY <1>5, DeclaredNames DEF Contract!NamesOf
    <2>2. mark_as("initializer", builder, Ptr(inits[next]))
      BY <1>5, <2>1 DEF ImportInitializer
    <2>3. I(listed["initializer"][builder], next - 1)
      BY <1>3, <1>5
    <2> HIDE DEF inits
    <2>4. /\ Lists(listed'["initializer"][builder], inits,
                   Places(inits, next, Contract!Firsts(inits) \cap (1 .. next - 1), 1 .. next - 1),
                   (1 .. next - 1) \cup {next})
          /\ \A r \in Roles \ {"initializer"} : listed'[r][builder] = listed[r][builder]
      BY <1>1, <2>1, <2>2, <2>3, MarkedList
    <2>5. I(listed'["initializer"][builder], next)
      BY <1>1, <2>1, <2>4, FirstPlaces, OneMore
    <2>6. listed'["input"][builder] = listed["input"][builder] /\ listed'["output"][builder] = listed["output"][builder]
      BY <1>1, <2>4
    <2> HIDE DEF I, J, O
    <2> QED
      BY <1>3, <1>4, <1>5, <2>5, <2>6
  <1>6. CASE /\ ImportOutput /\ next \in DOMAIN file.output
             /\ ReadOutputs = next - 1 /\ ReadOutputs' = next
             /\ ReadInputs' = ReadInputs /\ ReadInitializers' = ReadInitializers
    <2>1. next \in DOMAIN outs /\ outs[next] \in Names
      BY <1>6, DeclaredNames
    <2>2. mark_as("output", builder, Ptr(outs[next]))
      BY <1>6, <2>1 DEF ImportOutput
    <2>3. O(listed["output"][builder], next - 1)
      BY <1>3, <1>6
    <2> HIDE DEF outs
    <2>4. /\ Lists(listed'["output"][builder], outs,
                   Places(outs, next, Contract!Firsts(outs) \cap (1 .. next - 1), 1 .. next - 1),
                   (1 .. next - 1) \cup {next})
          /\ \A r \in Roles \ {"output"} : listed'[r][builder] = listed[r][builder]
      BY <1>1, <2>1, <2>2, <2>3, MarkedList
    <2>5. O(listed'["output"][builder], next)
      BY <1>1, <2>1, <2>4, FirstPlaces, OneMore
    <2>6. listed'["input"][builder] = listed["input"][builder] /\ listed'["initializer"][builder] = listed["initializer"][builder]
      BY <1>1, <2>4
    <2> HIDE DEF I, J, O
    <2> QED
      BY <1>3, <1>4, <1>6, <2>5, <2>6
  <1>7. CASE /\ ImportInput /\ next \in DOMAIN file.input
             /\ ReadInputs = next - 1 /\ ReadInputs' = next
             /\ ReadInitializers = Len(file.initializer)
             /\ ReadInitializers' = ReadInitializers /\ ReadOutputs' = ReadOutputs
    <2>1. ins[next] = file.input[next].name /\ next \in DOMAIN ins /\ ins[next] \in Names
      BY <1>7, DeclaredNames DEF Contract!NamesOf
    <2>2. Proper(next) <=> file.input[next].name \notin init_names
      BY <1>2, <1>7 DEF Proper, NamesRead, Contract!IsInitializer
    <2>3. J(listed["input"][builder], next - 1)
      BY <1>3, <1>7
    <2>4. CASE Proper(next)
      <3>1. mark_as("input", builder, Ptr(ins[next]))
        BY <1>7, <2>1, <2>2, <2>4 DEF ImportInput
      <3> DEFINE where  == Contract!DeclaredInputs(file) \cap (1 .. next - 1)
                 marked == {i \in 1 .. next - 1 : Proper(i)}
      <3>2. /\ Places(ins, next, where, marked) = Contract!DeclaredInputs(file) \cap (1 .. next)
            /\ {i \in 1 .. next : Proper(i)} = marked \cup {next}
        BY <1>1, <1>2, <1>7, <2>4, InputPlaces
      <3>3. where \in SUBSET (1 .. next - 1) /\ marked \in SUBSET (1 .. next - 1)
        OBVIOUS
      <3>4. Lists(listed["input"][builder], ins, where, marked)
        BY <2>3
      <3> HIDE DEF ins, where, marked
      <3>5. /\ Lists(listed'["input"][builder], ins, Places(ins, next, where, marked), marked \cup {next})
            /\ \A r \in Roles \ {"input"} : listed'[r][builder] = listed[r][builder]
        BY <1>1, <2>1, <3>1, <3>3, <3>4, MarkedList
      <3>6. J(listed'["input"][builder], next)
        BY <3>2, <3>5
      <3>7. /\ listed'["initializer"][builder] = listed["initializer"][builder]
            /\ listed'["output"][builder] = listed["output"][builder]
        BY <1>1, <3>5
      <3> HIDE DEF I, J, O
      <3> QED
        BY <1>3, <1>4, <1>7, <3>6, <3>7
    <2>5. CASE ~Proper(next)
      <3>1. listed' = listed
        BY <1>7, <2>2, <2>5 DEF ImportInput, marks
      <3>2. J(listed["input"][builder], next)
        BY <1>1, <1>2, <1>7, <2>3, <2>5, InputPlaces
      <3> HIDE DEF I, J, O
      <3> QED
        BY <1>3, <1>4, <1>7, <3>1, <3>2
    <2> QED
      BY <2>4, <2>5
  <1>8. CASE /\ listed' = listed
             /\ ReadInitializers' = ReadInitializers /\ ReadInputs' = ReadInputs /\ ReadOutputs' = ReadOutputs
    <2> HIDE DEF I, J, O
    <2> QED
      BY <1>3, <1>4, <1>8
  <1>9. ImportNode \/ ParseAttribute \/ UNCHANGED vars => listed' = listed
    BY DEF ImportNode, ParseAttribute, marks, vars
  <1> HIDE DEF inits, ins, outs, I, J, O
  <1> QED
    BY <1>5, <1>6, <1>7, <1>8, <1>9, StepReads

-----------------------------------------------------------------------------
(* Nodes *)

\* A named input after an empty one is what the loop refuses.
LEMMA GapSeen ==
    ASSUME NEW ins \in Seq(Names)
    PROVE  Contract!HasGap(ins) <=> AfterGap(ins) # {}
  <1>1. DOMAIN ins = 1 .. Len(ins) /\ Len(ins) \in Nat
    OBVIOUS
  <1> QED
    BY <1>1 DEF Contract!HasGap, AfterGap

\* The nodes are those of the file, with the values of their slots.
LEMMA NodesReadStep ==
    ASSUME ImporterTypeOK, file # Unreadable, pc # "failed", InBounds, NodesRead,
           [ImporterNext]_ivars, pc' # "failed"
    PROVE  NodesRead'
  <1>1. file' = file /\ next \in Nat \ {0} /\ TypeOK /\ builder \in Builders
    BY StepReads, BuilderAssumption DEF ImporterTypeOK
  <1>2. CASE ImportNode /\ next \in DOMAIN file.node /\ ReadNodes = next - 1 /\ ReadNodes' = next
    <2> DEFINE record == [name |-> NameFor(builder, file.node[next].name),
                          inputs |-> Ptrs(Given(file.node[next].input)), outputs |-> Ptrs(file.node[next].output)]
    <2>1. /\ nodes_' = [nodes_ EXCEPT ![builder] = Append(@, record)]
          /\ AfterGap(file.node[next].input) = {}
      BY <1>2 DEF ImportNode, add_node
    <2>2. record.inputs = Ptrs(Given(file.node[next].input)) /\ record.outputs = Ptrs(file.node[next].output)
      OBVIOUS
    <2>3. record \in NodeRecord
      <3>1. /\ file.node[next].name \in NodeNames \cup {Unnamed}
            /\ Given(file.node[next].input) \in Seq(Names) /\ file.node[next].output \in Seq(Names)
        BY <1>2, NodeArgs
      <3> QED
        BY <1>1, <3>1, PtrsOfNames, NewNodeType
    <2> HIDE DEF record
    <2>4. nodes_[builder] \in Seq(NodeRecord) /\ nodes_'[builder] = Append(nodes_[builder], record)
      BY <1>1, <2>1 DEF TypeOK
    <2>5. Len(nodes_[builder]) = next - 1
      BY <1>1, <1>2, <2>4 DEF NodesRead
    <2>6. /\ DOMAIN nodes_'[builder] = 1 .. next
          /\ \A i \in 1 .. next - 1 : nodes_'[builder][i] = nodes_[builder][i]
          /\ nodes_'[builder][next] = record
      BY <1>1, <2>3, <2>4, <2>5
    <2>7. \A i \in 1 .. next : i = next \/ i \in 1 .. next - 1
      BY <1>1
    <2> QED
      BY <1>1, <1>2, <2>1, <2>2, <2>6, <2>7 DEF NodesRead
  <1>3. CASE nodes_' = nodes_ /\ ReadNodes' = ReadNodes
    BY <1>1, <1>3 DEF NodesRead
  <1>4. ImportInitializer \/ ImportInput \/ ImportOutput \/ ParseAttribute \/ UNCHANGED vars => nodes_' = nodes_
    BY DEF ImportInitializer, ImportInput, ImportOutput, ParseAttribute, links, vars
  <1> QED
    BY <1>2, <1>3, <1>4, StepReads

\* A value has a producer once a node that was read has it among its outputs.
LEMMA ProducersRead ==
    ASSUME ImporterTypeOK, AlwaysSound, file # Unreadable, pc # "failed", InBounds, NodesRead,
           NEW name \in Names
    PROVE  /\ producer[Ptr(name)] = Null <=> \A n \in 1 .. ReadNodes : name \notin Elems(file.node[n].output)
           /\ \A n \in 1 .. ReadNodes :
                  name \in Elems(file.node[n].output) => producer[Ptr(name)] = <<builder, n>>
  <1>1. Ptr(name) \in Value /\ builder \in Builders /\ Ptr(name)[1] = builder
    BY BuilderAssumption DEF Ptr, Value
  <1>2. verify_nodes_consistency(builder) /\ verify_values_consistency(builder) /\ Unlinked
    BY DEF AlwaysSound, verify
  <1>3. /\ DOMAIN nodes_[builder] = 1 .. ReadNodes
        /\ \A n \in 1 .. ReadNodes : /\ NodeAt(<<builder, n>>).outputs = Ptrs(file.node[n].output)
                                     /\ <<builder, n>> \in NodesOf(builder)
    BY DEF NodesRead, NodeAt, NodesOf
  <1>4. \A n \in 1 .. ReadNodes : Ptr(name) \in Elems(Ptrs(file.node[n].output)) <=> name \in Elems(file.node[n].output)
    BY DEF Elems, Ptrs, Ptr
  <1>5. ASSUME NEW n \in 1 .. ReadNodes, name \in Elems(file.node[n].output)
        PROVE  producer[Ptr(name)] = <<builder, n>>
    BY <1>2, <1>3, <1>4, <1>5 DEF verify_nodes_consistency
  <1>6. ASSUME producer[Ptr(name)] # Null
        PROVE  \E n \in 1 .. ReadNodes : name \in Elems(file.node[n].output)
    <2>1. Ptr(name) \in Owned(builder)
      BY <1>1, <1>2, <1>6 DEF Unlinked
    <2>2. producer[Ptr(name)] \in NodesOf(builder) /\ Ptr(name) \in Elems(NodeAt(producer[Ptr(name)]).outputs)
      BY <1>2, <1>6, <2>1 DEF verify_values_consistency
    <2>3. PICK n \in 1 .. ReadNodes : producer[Ptr(name)] = <<builder, n>>
      BY <1>3, <2>2 DEF NodesOf
    <2> QED
      BY <1>3, <1>4, <2>2, <2>3
  <1>7. \A n \in 1 .. ReadNodes : <<builder, n>> # Null
    <2>1. \A n \in 1 .. ReadNodes : n \in Nat \ {0}
      BY FileLists DEF InBounds
    <2> QED
      BY <1>1, <2>1, NullAssumption DEF Node
  <1> QED
    BY <1>5, <1>6, <1>7

\* add_node throws when the outputs of the node repeat a name, or one of an earlier node.
LEMMA ThrowsIsRepeated ==
    ASSUME ImporterTypeOK, AlwaysSound, file # Unreadable, pc # "failed", InBounds, NodesRead,
           next \in DOMAIN file.node, ReadNodes = next - 1
    PROVE  LET outs == file.node[next].output
           IN  Throws(Ptrs(outs)) <=>
                   \E k \in DOMAIN outs :
                      \/ \E n \in 1 .. next - 1 : outs[k] \in Elems(file.node[n].output)
                      \/ \E j \in 1 .. k - 1 : outs[j] = outs[k]
  <1> DEFINE outs == file.node[next].output
  <1>1. outs \in Seq(Names)
    BY FileLists
  <1>2. \A k \in DOMAIN outs : outs[k] \in Names /\ \A j \in 1 .. k - 1 : j \in DOMAIN outs
    BY <1>1
  <1> HIDE DEF outs
  <1>3. DOMAIN Ptrs(outs) = DOMAIN outs /\ \A k \in DOMAIN outs : Ptrs(outs)[k] = Ptr(outs[k])
    BY DEF Ptrs
  <1>4. ASSUME NEW k \in DOMAIN outs
        PROVE  Taken(Ptrs(outs), k) <=>
                      \/ \E n \in 1 .. next - 1 : outs[k] \in Elems(file.node[n].output)
                      \/ \E j \in 1 .. k - 1 : outs[j] = outs[k]
    <2>1. producer[Ptr(outs[k])] # Null <=> \E n \in 1 .. next - 1 : outs[k] \in Elems(file.node[n].output)
      BY <1>2, ProducersRead
    <2>2. (\E j \in 1 .. k - 1 : Ptrs(outs)[j] = Ptrs(outs)[k]) <=> \E j \in 1 .. k - 1 : outs[j] = outs[k]
      BY <1>2, <1>3 DEF Ptr
    <2> QED
      BY <1>3, <2>1, <2>2 DEF Taken
  <1> QED
    BY <1>3, <1>4 DEF Throws, outs

\* No name is the output of two slots read: add_node would have thrown.
LEMMA OutputsApartStep ==
    ASSUME ImporterTypeOK, AlwaysSound, file # Unreadable, pc # "failed", InBounds, NodesRead, OutputsApart,
           [ImporterNext]_ivars, pc' # "failed"
    PROVE  OutputsApart'
  <1>1. file' = file /\ next \in Nat \ {0}
    BY StepReads DEF ImporterTypeOK
  <1>2. CASE /\ ImportNode /\ ~Throws(Ptrs(file.node[next].output)) /\ next \in DOMAIN file.node
             /\ ReadNodes = next - 1 /\ ReadNodes' = next
    <2> DEFINE outs(n) == file.node[n].output
    <2>1. \A k \in DOMAIN outs(next) :
              /\ \A n \in 1 .. next - 1 : outs(next)[k] \notin Elems(outs(n))
              /\ \A j \in 1 .. k - 1 : outs(next)[j] # outs(next)[k]
      BY <1>2, ThrowsIsRepeated
    <2>2. DOMAIN outs(next) = 1 .. Len(outs(next)) /\ Len(outs(next)) \in Nat
      BY <1>2, FileLists
    <2> HIDE DEF outs
    <2>3. \A n \in 1 .. next : n = next \/ n \in 1 .. next - 1
      BY <1>1
    <2>4. \A j, k \in DOMAIN outs(next) : outs(next)[j] = outs(next)[k] => j = k
      BY <2>1, <2>2
    <2>5. \A n \in 1 .. next - 1 : \A j \in DOMAIN outs(n), k \in DOMAIN outs(next) : outs(n)[j] # outs(next)[k]
      BY <2>1 DEF Elems
    <2>6. \A m, n \in 1 .. next - 1 : \A j \in DOMAIN outs(m), k \in DOMAIN outs(n) :
              outs(m)[j] = outs(n)[k] => m = n /\ j = k
      BY <1>2 DEF OutputsApart, outs
    <2>7. \A m, n \in 1 .. next : \A j \in DOMAIN outs(m), k \in DOMAIN outs(n) :
              outs(m)[j] = outs(n)[k] => m = n /\ j = k
      BY <2>3, <2>4, <2>5, <2>6
    <2> QED
      BY <1>1, <1>2, <2>7 DEF OutputsApart, outs
  <1>3. CASE ReadNodes' = ReadNodes
    BY <1>1, <1>3 DEF OutputsApart
  <1> QED
    BY <1>2, <1>3, StepReads

-----------------------------------------------------------------------------
(* Attributes *)

\* The last of some positions, when a later one joins them.
LEMMA LastGrows ==
    ASSUME NEW n \in Nat \ {0}, NEW where, NEW list
    PROVE  /\ n \in where => Contract!LastEntry(list, where \cap (1 .. n)) = <<list, n>>
           /\ n \notin where => where \cap (1 .. n) = where \cap (1 .. n - 1)
  <1>1. 1 .. n = (1 .. n - 1) \cup {n} /\ \A i \in 1 .. n : i <= n
    BY OneMore
  <1>2. ASSUME n \in where
        PROVE  Contract!LastEntry(list, where \cap (1 .. n)) = <<list, n>>
    <2> DEFINE set == where \cap (1 .. n)
    <2>1. n \in set /\ \A i \in set : i <= n /\ i \in Nat
      BY <1>1, <1>2
    <2>2. \A i \in set : (\A j \in set : j <= i) => i = n
      BY <2>1
    <2> HIDE DEF set
    <2>3. (CHOOSE i \in set : \A j \in set : j <= i) = n
      BY <2>1, <2>2
    <2>4. set # {}
      BY <2>1
    <2> QED
      BY <2>3, <2>4 DEF Contract!LastEntry, set
  <1> QED
    BY <1>1, <1>2

\* The map begins empty, grows entry by entry, and is that of the node in the end.
LEMMA AttributesUpToFacts ==
    ASSUME NEW entries, NEW m \in Nat
    PROVE  /\ AttributesUpTo(entries, 0) = NoAttributes
           /\ DOMAIN entries = 1 .. m => AttributesUpTo(entries, m) = Contract!AttributesOf(entries)
           /\ m + 1 \in DOMAIN entries => AttributesUpTo(entries, m + 1) =
                IF entries[m + 1].kept
                THEN [key \in DOMAIN AttributesUpTo(entries, m) \cup {entries[m + 1].name} |->
                        IF key = entries[m + 1].name THEN <<"attribute", m + 1>> ELSE AttributesUpTo(entries, m)[key]]
                ELSE AttributesUpTo(entries, m)
  <1> DEFINE Keys(n) == {entries[i].name : i \in {j \in 1 .. n : entries[j].kept}}
             Last(n, key) == Contract!LastEntry("attribute", Contract!KeptAs(entries, key) \cap (1 .. n))
  <1>1. 1 .. 0 = {} /\ m + 1 \in Nat \ {0} /\ (m + 1) - 1 = m /\ 1 .. m + 1 = (1 .. m) \cup {m + 1}
    BY OneMore
  <1>2. \A n : AttributesUpTo(entries, n) = [key \in Keys(n) |-> Last(n, key)]
    BY DEF AttributesUpTo
  <1>3. AttributesUpTo(entries, 0) = NoAttributes
    BY <1>1 DEF AttributesUpTo, NoAttributes
  <1>4. ASSUME DOMAIN entries = 1 .. m
        PROVE  AttributesUpTo(entries, m) = Contract!AttributesOf(entries)
    <2>1. {e.name : e \in {f \in Contract!Items(entries) : f.kept}} = Keys(m)
      BY <1>4 DEF Contract!Items
    <2>2. \A key : Contract!KeptAs(entries, key) \cap (1 .. m) = Contract!KeptAs(entries, key)
      BY <1>4 DEF Contract!KeptAs
    <2> HIDE DEF Keys
    <2> QED
      BY <1>2, <2>1, <2>2 DEF Contract!AttributesOf
  <1>5. ASSUME entries[m + 1].kept, m + 1 \in DOMAIN entries
        PROVE  AttributesUpTo(entries, m + 1) =
                 [key \in DOMAIN AttributesUpTo(entries, m) \cup {entries[m + 1].name} |->
                     IF key = entries[m + 1].name THEN <<"attribute", m + 1>> ELSE AttributesUpTo(entries, m)[key]]
    <2> DEFINE name == entries[m + 1].name
    <2>1. Keys(m + 1) = Keys(m) \cup {name}
      BY <1>1, <1>5
    <2>2. Last(m + 1, name) = <<"attribute", m + 1>>
      <3>1. m + 1 \in Contract!KeptAs(entries, name)
        BY <1>5 DEF Contract!KeptAs
      <3> QED
        BY <1>1, <3>1, LastGrows
    <2>3. \A key : key # name => Last(m + 1, key) = Last(m, key)
      <3>1. \A key : key # name => m + 1 \notin Contract!KeptAs(entries, key)
        BY DEF Contract!KeptAs
      <3>2. \A key : key # name => Contract!KeptAs(entries, key) \cap (1 .. m + 1) = Contract!KeptAs(entries, key) \cap (1 .. m)
        BY <1>1, <3>1, LastGrows
      <3> SUFFICES ASSUME NEW key, key # name
                   PROVE  Last(m + 1, key) = Last(m, key)
        OBVIOUS
      <3>3. Contract!KeptAs(entries, key) \cap (1 .. m + 1) = Contract!KeptAs(entries, key) \cap (1 .. m)
        BY <3>2
      <3> QED
        BY <3>3, Zenon
    <2>4. DOMAIN AttributesUpTo(entries, m) = Keys(m)
      BY <1>2
    <2>5. \A key \in Keys(m) : AttributesUpTo(entries, m)[key] = Last(m, key)
      <3> HIDE DEF Keys, Last
      <3> QED
        BY <1>2
    <2>6. AttributesUpTo(entries, m + 1) = [key \in Keys(m) \cup {name} |-> Last(m + 1, key)]
      <3> HIDE DEF Keys, Last, name
      <3> QED
        BY <1>2, <2>1
    <2> HIDE DEF Keys, Last, name
    <2>7. \A key \in Keys(m) \cup {name} :
              Last(m + 1, key) = IF key = name THEN <<"attribute", m + 1>> ELSE AttributesUpTo(entries, m)[key]
      BY <2>2, <2>3, <2>5
    <2> QED
      BY <2>4, <2>6, <2>7 DEF name
  <1>6. ASSUME ~entries[m + 1].kept, m + 1 \in DOMAIN entries
        PROVE  AttributesUpTo(entries, m + 1) = AttributesUpTo(entries, m)
    <2>1. Keys(m + 1) = Keys(m)
      BY <1>1, <1>6
    <2>2. \A key : Last(m + 1, key) = Last(m, key)
      <3>1. \A key : m + 1 \notin Contract!KeptAs(entries, key)
        BY <1>6 DEF Contract!KeptAs
      <3> QED
        BY <1>1, <3>1, LastGrows
    <2> HIDE DEF Keys, Last
    <2> QED
      BY <1>2, <2>1, <2>2
  <1> QED
    BY <1>3, <1>4, <1>5, <1>6

\* The attributes of a node are complete when the node is made.
LEMMA AttributesReadStep ==
    ASSUME ImporterTypeOK, file # Unreadable, pc # "failed", InBounds, AttributesRead,
           [ImporterNext]_ivars, pc' # "failed"
    PROVE  AttributesRead'
  <1> DEFINE entries == file.node[next].attribute
             AtNode == pc = "nodes" /\ next \in DOMAIN file.node
  <1>1. file' = file /\ next \in Nat \ {0} /\ DOMAIN file.node = 1 .. Len(file.node) /\ Len(file.node) \in Nat
    BY StepReads, FileLists DEF ImporterTypeOK
  <1>2. /\ attributes_ = [n \in 1 .. ReadNodes |-> Contract!AttributesOf(file.node[n].attribute)]
        /\ ReadNodes \in Nat
        /\ AtNode => read \in 0 .. Len(entries) /\ attrs = AttributesUpTo(entries, read)
        /\ ~AtNode => attrs = NoAttributes /\ read = 0
    BY DEF AttributesRead, InBounds
  <1>3. AtNode => DOMAIN entries = 1 .. Len(entries) /\ Len(entries) \in Nat
    BY FileLists
  <1>4. (pc' = "nodes" /\ next' \in DOMAIN file.node /\ read' = 0 /\ attrs' = NoAttributes)
          => read' \in 0 .. Len(file.node[next'].attribute) /\ attrs' = AttributesUpTo(file.node[next'].attribute, read')
    <2> SUFFICES ASSUME next' \in DOMAIN file.node
                 PROVE  0 \in 0 .. Len(file.node[next'].attribute) /\ NoAttributes = AttributesUpTo(file.node[next'].attribute, 0)
      OBVIOUS
    <2>1. \A n \in DOMAIN file.node : Len(file.node[n].attribute) \in Nat
      BY FileLists
    <2>2. \A list : AttributesUpTo(list, 0) = NoAttributes
      BY AttributesUpToFacts
    <2> QED
      BY <2>1, <2>2
  <1>5. CASE ImportNode /\ next \in DOMAIN file.node /\ ReadNodes = next - 1 /\ ReadNodes' = next
    <2>1. /\ AtNode /\ read = Len(entries)
          /\ attributes_' = Append(attributes_, attrs) /\ attrs' = NoAttributes /\ read' = 0
      BY <1>5 DEF ImportNode
    <2>2. attrs = Contract!AttributesOf(entries)
      BY <1>2, <1>3, <2>1, AttributesUpToFacts
    <2>3. attributes_' = [n \in 1 .. next |-> Contract!AttributesOf(file.node[n].attribute)]
      BY <1>1, <1>2, <1>5, <2>1, <2>2
    <2> QED
      BY <1>1, <1>4, <1>5, <2>1, <2>3 DEF AttributesRead
  <1>6. CASE ParseAttribute /\ ReadNodes' = ReadNodes
    <2>1. /\ AtNode /\ pc' = pc /\ next' = next /\ attributes_' = attributes_
          /\ read + 1 \in DOMAIN entries /\ read' = read + 1
          /\ attrs' = IF entries[read + 1].kept
                      THEN [key \in DOMAIN attrs \cup {entries[read + 1].name} |->
                               IF key = entries[read + 1].name THEN <<"attribute", read + 1>> ELSE attrs[key]]
                      ELSE attrs
      BY <1>6 DEF ParseAttribute
    <2> HIDE DEF entries
    <2>2. attrs' = AttributesUpTo(entries, read + 1)
      <3>1. attrs = AttributesUpTo(entries, read) /\ read \in Nat /\ read + 1 \in DOMAIN entries
        BY <1>2, <1>3, <2>1 DEF entries
      <3>2. AttributesUpTo(entries, read + 1) =
                IF entries[read + 1].kept
                THEN [key \in DOMAIN AttributesUpTo(entries, read) \cup {entries[read + 1].name} |->
                        IF key = entries[read + 1].name THEN <<"attribute", read + 1>>
                                                        ELSE AttributesUpTo(entries, read)[key]]
                ELSE AttributesUpTo(entries, read)
        BY <3>1, AttributesUpToFacts
      <3> QED
        BY <2>1, <3>1, <3>2, Zenon
    <2>3. read + 1 \in 0 .. Len(entries)
      BY <1>2, <1>3, <2>1 DEF entries
    <2> QED
      BY <1>1, <1>2, <1>6, <2>1, <2>2, <2>3 DEF AttributesRead, entries
  <1>7. CASE /\ UNCHANGED parsing /\ ReadNodes' = ReadNodes
             /\ (pc' = pc /\ next' = next) \/ ~AtNode
    <2>1. attributes_' = attributes_ /\ attrs' = attrs /\ read' = read
      BY <1>7 DEF parsing
    <2>2. CASE pc' = pc /\ next' = next
      BY <1>1, <1>2, <1>7, <2>1, <2>2 DEF AttributesRead
    <2>3. CASE ~AtNode
      BY <1>1, <1>2, <1>4, <1>7, <2>1, <2>3 DEF AttributesRead
    <2> QED
      BY <1>7, <2>2, <2>3
  <1>8. ImportInitializer \/ ImportInput \/ ImportOutput => UNCHANGED parsing /\ ~AtNode
    BY DEF ImportInitializer, ImportInput, ImportOutput, Iteration
  <1> QED
    BY <1>5, <1>6, <1>7, <1>8, StepReads

-----------------------------------------------------------------------------
(* Shapes, types and data *)

\* A value has what the last entry that describes it says.
LEMMA TensorsReadStep ==
    ASSUME ImporterTypeOK, file # Unreadable, pc # "failed", InBounds, NamesRead, TensorsRead,
           [ImporterNext]_ivars, pc' # "failed"
    PROVE  TensorsRead'
  <1> DEFINE Inits(name) == Contract!Initializing(file, name)
             Last(name, where, n, m) ==
                IF Inits(name) \cap (1 .. n) # {} THEN Contract!LastEntry("initializer", Inits(name) \cap (1 .. n))
                ELSE Contract!LastEntry("input", where \cap (1 .. m))
             Held(name, n) == Contract!LastEntry("initializer", Stored(name) \cap (1 .. n))
  <1>1. /\ file' = file /\ next \in Nat \ {0} /\ builder \in Builders
        /\ shape_ \in [Value -> Entry] /\ dtype_ \in [Value -> Entry] /\ data_ \in [Value -> Entry]
    BY StepReads, BuilderAssumption DEF ImporterTypeOK
  <1>2. \A name \in Names :
            /\ shape_[Ptr(name)] = Last(name, Shaped(name), ReadInitializers, ReadInputs)
            /\ dtype_[Ptr(name)] = Last(name, Typed(name), ReadInitializers, ReadInputs)
            /\ data_[Ptr(name)] = Held(name, ReadInitializers)
    BY DEF TensorsRead, LastRead
  <1>3. (\A name \in Names :
            /\ shape_'[Ptr(name)] = Last(name, Shaped(name), ReadInitializers', ReadInputs')
            /\ dtype_'[Ptr(name)] = Last(name, Typed(name), ReadInitializers', ReadInputs')
            /\ data_'[Ptr(name)] = Held(name, ReadInitializers'))
        => TensorsRead'
    <2>1. \A name : /\ Shaped(name)' = Shaped(name) /\ Typed(name)' = Typed(name) /\ Stored(name)' = Stored(name)
                    /\ Contract!Initializing(file', name) = Inits(name)
      BY <1>1 DEF Shaped, Typed, Stored
    <2>2. TensorsRead' <=> \A name \in Names :
              /\ shape_'[Ptr(name)] = LastRead(name, Shaped(name))'
              /\ dtype_'[Ptr(name)] = LastRead(name, Typed(name))'
              /\ data_'[Ptr(name)] = Contract!LastEntry("initializer", Stored(name)' \cap (1 .. ReadInitializers'))
      BY DEF TensorsRead, Ptr
    <2>3. \A name : /\ LastRead(name, Shaped(name))' = Last(name, Shaped(name), ReadInitializers', ReadInputs')
                    /\ LastRead(name, Typed(name))' = Last(name, Typed(name), ReadInitializers', ReadInputs')
      BY <2>1 DEF LastRead
    <2> HIDE DEF Last
    <2> QED
      BY <2>1, <2>2, <2>3
  <1>4. \A name \in Names : Ptr(name) \in Value
    BY <1>1 DEF Ptr, Value
  <1>5. \A name, other \in Names : Ptr(name) = Ptr(other) => name = other
    BY DEF Ptr
  <1> HIDE DEF Last, Held
  <1>6. CASE /\ ImportInitializer /\ next \in DOMAIN file.initializer
             /\ ReadInitializers = next - 1 /\ ReadInitializers' = next
             /\ ReadInputs' = ReadInputs
    <2> DEFINE this  == file.initializer[next].name
               entry == <<"initializer", next>>
               kept  == file.initializer[next].storage # "other"
    <2>1. /\ shape_' = [shape_ EXCEPT ![Ptr(this)] = entry]
          /\ dtype_' = [dtype_ EXCEPT ![Ptr(this)] = entry]
          /\ IF kept THEN data_' = [data_ EXCEPT ![Ptr(this)] = entry] ELSE data_' = data_
          /\ this \in Names
      <3>1. this \in Names /\ file.initializer[next].storage \in {"raw", "typed", "other"}
        <4> DEFINE All == [name : Names, storage : {"raw", "typed", "other"}]
        <4>1. file.initializer \in Seq(All)
          BY FilesAssumption DEF ImporterTypeOK
        <4>2. \A e \in All : e.name \in Names /\ e.storage \in {"raw", "typed", "other"}
          OBVIOUS
        <4> HIDE DEF All
        <4> QED
          BY <1>6, <4>1, <4>2
      <3> QED
        BY <1>6, <3>1 DEF ImportInitializer, set_shape, set_value_dtype, set_value_data
    <2>2. \A name : /\ next \in Inits(name) <=> name = this
                    /\ next \in Stored(name) <=> name = this /\ kept
      BY <1>6 DEF Contract!Initializing, Stored
    <2> HIDE DEF this, entry, kept, Inits
    <2>3. ASSUME NEW name \in Names, name # this, NEW where
          PROVE  Last(name, where, next, ReadInputs) = Last(name, where, next - 1, ReadInputs)
      <3>1. Inits(name) \cap (1 .. next) = Inits(name) \cap (1 .. next - 1)
        BY <1>1, <2>2, <2>3, LastGrows
      <3> QED
        BY <3>1 DEF Last
    <2>4. ASSUME NEW name \in Names, name # this \/ ~kept
          PROVE  Held(name, next) = Held(name, next - 1)
      <3>1. Stored(name) \cap (1 .. next) = Stored(name) \cap (1 .. next - 1)
        BY <1>1, <2>2, <2>4, LastGrows
      <3> QED
        BY <3>1 DEF Held
    <2>5. \A where : Last(this, where, next, ReadInputs) = entry
      <3>1. next \in Inits(this) \cap (1 .. next) /\ Contract!LastEntry("initializer", Inits(this) \cap (1 .. next)) = entry
        BY <1>1, <2>2, LastGrows DEF entry
      <3> QED
        BY <3>1 DEF Last
    <2>6. kept => Held(this, next) = entry
      <3>1. kept => next \in Stored(this)
        BY <2>2
      <3> QED
        BY <1>1, <3>1, LastGrows DEF Held, entry
    <2>7. ASSUME NEW name \in Names
          PROVE  /\ shape_'[Ptr(name)] = Last(name, Shaped(name), next, ReadInputs)
                 /\ dtype_'[Ptr(name)] = Last(name, Typed(name), next, ReadInputs)
                 /\ data_'[Ptr(name)] = Held(name, next)
      <3>1. /\ shape_[Ptr(name)] = Last(name, Shaped(name), next - 1, ReadInputs)
            /\ dtype_[Ptr(name)] = Last(name, Typed(name), next - 1, ReadInputs)
            /\ data_[Ptr(name)] = Held(name, next - 1)
        BY <1>2, <1>6
      <3>2. CASE name = this
        <4>1. shape_'[Ptr(name)] = entry /\ dtype_'[Ptr(name)] = entry
          BY <1>1, <1>4, <2>1, <3>2
        <4>2. data_'[Ptr(name)] = IF kept THEN entry ELSE data_[Ptr(name)]
          BY <1>1, <1>4, <2>1, <3>2
        <4> QED
          BY <2>4, <2>5, <2>6, <3>1, <3>2, <4>1, <4>2
      <3>3. CASE name # this
        <4>1. Ptr(name) # Ptr(this)
          BY <1>5, <2>1, <3>3
        <4>2. /\ shape_'[Ptr(name)] = shape_[Ptr(name)] /\ dtype_'[Ptr(name)] = dtype_[Ptr(name)]
              /\ data_'[Ptr(name)] = data_[Ptr(name)]
          BY <1>1, <1>4, <2>1, <4>1
        <4> QED
          BY <2>3, <2>4, <3>1, <3>3, <4>2
      <3> QED
        BY <3>2, <3>3
    <2> QED
      BY <1>3, <1>6, <2>7
  <1>7. CASE /\ ImportInput /\ next \in DOMAIN file.input
             /\ ReadInputs = next - 1 /\ ReadInputs' = next
             /\ ReadInitializers = Len(file.initializer) /\ ReadInitializers' = ReadInitializers
    <2> DEFINE this  == file.input[next].name
               entry == <<"input", next>>
               shaped == file.input[next].shape
               typed  == file.input[next].elem
               default == this \in init_names
               all == ReadInitializers
    <2>1. /\ this \in Names /\ data_' = data_
          /\ default => shape_' = shape_ /\ dtype_' = dtype_
          /\ ~default =>
                /\ IF shaped THEN shape_' = [shape_ EXCEPT ![Ptr(this)] = entry] ELSE shape_' = shape_
                /\ IF typed  THEN dtype_' = [dtype_ EXCEPT ![Ptr(this)] = entry] ELSE dtype_' = dtype_
      BY <1>7, DeclaredNames DEF ImportInput, set_shape, set_value_dtype
    <2>2. \A name : /\ next \in Shaped(name) <=> name = this /\ shaped
                    /\ next \in Typed(name) <=> name = this /\ typed
      BY <1>7 DEF Contract!Declaring, Shaped, Typed
    <2>3. default <=> Inits(this) \cap (1 .. all) # {}
      <3>1. DOMAIN file.initializer = 1 .. all
        BY <1>7, FileLists
      <3> QED
        BY <3>1 DEF NamesRead, Contract!Initializing
    <2> HIDE DEF this, entry, shaped, typed, default, Inits, all
    <2>4. ASSUME NEW name \in Names, NEW where, next \notin where
          PROVE  Last(name, where, all, next) = Last(name, where, all, next - 1)
      <3>1. where \cap (1 .. next) = where \cap (1 .. next - 1)
        BY <1>1, <2>4, LastGrows
      <3> QED
        BY <3>1 DEF Last
    <2>5. ASSUME NEW where, default
          PROVE  Last(this, where, all, next) = Last(this, where, all, next - 1)
      BY <2>3, <2>5 DEF Last
    <2>6. ASSUME NEW where, next \in where, ~default
          PROVE  Last(this, where, all, next) = entry
      BY <1>1, <2>3, <2>6, LastGrows DEF Last, entry
    <2>7. ASSUME NEW name \in Names
          PROVE  /\ shape_'[Ptr(name)] = Last(name, Shaped(name), all, next)
                 /\ dtype_'[Ptr(name)] = Last(name, Typed(name), all, next)
                 /\ data_'[Ptr(name)] = Held(name, all)
      <3>1. /\ shape_[Ptr(name)] = Last(name, Shaped(name), all, next - 1)
            /\ dtype_[Ptr(name)] = Last(name, Typed(name), all, next - 1)
            /\ data_[Ptr(name)] = Held(name, all)
        BY <1>2, <1>7 DEF all
      <3>2. CASE name # this
        <4>1. Ptr(name) # Ptr(this)
          BY <1>5, <2>1, <3>2
        <4>2. shape_'[Ptr(name)] = shape_[Ptr(name)] /\ dtype_'[Ptr(name)] = dtype_[Ptr(name)]
          BY <1>1, <1>4, <2>1, <4>1
        <4> QED
          BY <2>1, <2>2, <2>4, <3>1, <3>2, <4>2
      <3>3. CASE name = this /\ default
        BY <2>1, <2>5, <3>1, <3>3
      <3>4. CASE name = this /\ ~default
        <4>1. shape_'[Ptr(name)] = IF shaped THEN entry ELSE shape_[Ptr(name)]
          BY <1>1, <1>4, <2>1, <3>4
        <4>2. dtype_'[Ptr(name)] = IF typed THEN entry ELSE dtype_[Ptr(name)]
          BY <1>1, <1>4, <2>1, <3>4
        <4>3. shape_'[Ptr(name)] = Last(name, Shaped(name), all, next)
          BY <2>2, <2>4, <2>6, <3>1, <3>4, <4>1
        <4>4. dtype_'[Ptr(name)] = Last(name, Typed(name), all, next)
          BY <2>2, <2>4, <2>6, <3>1, <3>4, <4>2
        <4> QED
          BY <2>1, <3>1, <4>3, <4>4
      <3> QED
        BY <3>2, <3>3, <3>4
    <2> QED
      BY <1>3, <1>7, <2>7 DEF all
  <1>8. CASE UNCHANGED tensors /\ ReadInitializers' = ReadInitializers /\ ReadInputs' = ReadInputs
    BY <1>2, <1>3, <1>8 DEF tensors
  <1>9. ImportOutput \/ ImportNode \/ ParseAttribute => UNCHANGED tensors
    BY DEF ImportOutput, ImportNode, ParseAttribute
  <1> QED
    BY <1>6, <1>7, <1>8, <1>9, StepReads

-----------------------------------------------------------------------------
(* Failures, and the inductive invariant *)

\* Without a gap the inputs before the first empty name are all that are given.
LEMMA PresentIsGiven ==
    ASSUME NEW ins \in Seq(Names), AfterGap(ins) = {}
    PROVE  Contract!Present(ins) = Given(ins)
  <1> DEFINE where == {i \in DOMAIN ins : ins[i] # EmptyName}
             kept  == {k \in DOMAIN ins : \A g \in 1 .. k : ins[g] # EmptyName}
             m == Len(Given(ins))
  <1>1. DOMAIN ins = 1 .. Len(ins) /\ Len(ins) \in Nat
    OBVIOUS
  <1>2. where = kept
    <2>1. \A j \in where : \A i \in 1 .. j - 1 : ins[i] # EmptyName
      BY DEF AfterGap
    <2>2. \A j \in where : \A i \in 1 .. j : i = j \/ i \in 1 .. j - 1
      BY <1>1
    <2>3. \A j \in kept : j \in where
      BY <1>1
    <2> QED
      BY <2>1, <2>2, <2>3
  <1>3. kept = 1 .. m /\ m \in Nat
    <2>1. Given(ins) \in Seq(Names)
      BY GivenIsPrefix
    <2>2. DOMAIN Given(ins) = 1 .. m /\ m \in Nat
      BY <2>1
    <2>3. DOMAIN Given(ins) = kept
      BY DEF Given
    <2> QED
      BY <2>2, <2>3
  <1>4. Given(ins) = [i \in kept |-> ins[i]]
    BY DEF Given
  <1>5. Contract!Present(ins) = Contract!Chosen(ins, where)
    BY DEF Contract!Present
  <1> HIDE DEF where, kept, m
  <1>6. Contract!Chosen(ins, kept) = [k \in 1 .. m |-> ins[Nth(kept, k)]]
    BY <1>3, NthOfAll, SameNumbers DEF Contract!Chosen
  <1>7. \A k \in 1 .. m : Nth(kept, k) = k
    BY <1>3, NthOfAll
  <1> QED
    BY <1>2, <1>3, <1>4, <1>5, <1>6, <1>7

\* Names become pointers and are read back as they were.
LEMMA NamesInPtrs ==
    ASSUME NEW list \in Seq(Names)
    PROVE  NamesIn(Ptrs(list)) = list
  <1>1. DOMAIN list = 1 .. Len(list) /\ list = [i \in 1 .. Len(list) |-> list[i]]
    OBVIOUS
  <1>2. DOMAIN Ptrs(list) = DOMAIN list /\ \A i \in DOMAIN list : Ptrs(list)[i][2] = list[i]
    BY DEF Ptrs, Ptr
  <1> QED
    BY <1>1, <1>2 DEF NamesIn

\* The import fails only when the file cannot be imported.
LEMMA FailsRightly ==
    ASSUME ImporterTypeOK, AlwaysSound, file # Unreadable, pc # "failed", InBounds, NodesRead,
           [ImporterNext]_ivars, pc' = "failed"
    PROVE  file' = file /\ ~Contract!Importable(file)
  <1>1. CASE RejectGap
    <2>1. file' = file /\ next \in DOMAIN file.node /\ AfterGap(file.node[next].input) # {}
      BY <1>1 DEF RejectGap
    <2> QED
      BY <2>1, FileLists, GapSeen DEF Contract!Importable
  <1>2. CASE ImportNode
    <2> DEFINE outs(n) == file.node[n].output
    <2>1. file' = file /\ pc = "nodes" /\ next \in DOMAIN file.node /\ Throws(Ptrs(outs(next)))
      BY <1>2 DEF ImportNode
    <2>2. ReadNodes = next - 1 /\ next \in Nat \ {0}
      BY <2>1 DEF ReadNodes, ImporterTypeOK
    <2>3. PICK k \in DOMAIN outs(next) :
              \/ \E n \in 1 .. next - 1 : outs(next)[k] \in Elems(outs(n))
              \/ \E j \in 1 .. k - 1 : outs(next)[j] = outs(next)[k]
      BY <2>1, <2>2, ThrowsIsRepeated
    <2>4. \A n \in DOMAIN file.node : \A j \in DOMAIN outs(n) : <<n, j>> \in Contract!OutputSlots(file)
      BY DEF Contract!OutputSlots
    <2>5. DOMAIN file.node = 1 .. Len(file.node) /\ Len(file.node) \in Nat
          /\ DOMAIN outs(next) = 1 .. Len(outs(next)) /\ Len(outs(next)) \in Nat
      BY <2>1, FileLists
    <2>6. \E n \in DOMAIN file.node : \E j \in DOMAIN outs(n) :
              outs(n)[j] = outs(next)[k] /\ (n # next \/ j # k)
      <3>1. CASE \E n \in 1 .. next - 1 : outs(next)[k] \in Elems(outs(n))
        BY <2>1, <2>2, <2>5, <3>1 DEF Elems
      <3>2. CASE \E j \in 1 .. k - 1 : outs(next)[j] = outs(next)[k]
        BY <2>1, <2>5, <3>2
      <3> QED
        BY <2>3, <3>1, <3>2
    <2>7. PICK n \in DOMAIN file.node : \E j \in DOMAIN outs(n) : outs(n)[j] = outs(next)[k] /\ (n # next \/ j # k)
      BY <2>6
    <2>8. PICK j \in DOMAIN outs(n) : outs(n)[j] = outs(next)[k] /\ (n # next \/ j # k)
      BY <2>7
    <2>9. ~Contract!SingleAssignment(file)
      <3> DEFINE s == <<n, j>>
                 t == <<next, k>>
      <3>1. s \in Contract!OutputSlots(file) /\ t \in Contract!OutputSlots(file)
        BY <2>1, <2>4, <2>8
      <3>2. s # t /\ file.node[s[1]].output[s[2]] = file.node[t[1]].output[t[2]]
        BY <2>8
      <3> HIDE DEF s, t, outs
      <3> QED
        BY <3>1, <3>2 DEF Contract!SingleAssignment
    <2> QED
      BY <2>1, <2>9 DEF Contract!Importable
  <1>3. ~Verify
    BY DEF Verify, Enter, AlwaysSound
  <1>4. ~Deserialize /\ ~(UNCHANGED ivars)
    BY DEF Deserialize, Enter, ivars
  <1>5. ~EndOfLoop /\ ~ImportInitializer /\ ~ImportInput /\ ~ImportOutput /\ ~ParseAttribute
    BY DEF EndOfLoop, Enter, ImportInitializer, ImportInput, ImportOutput, ParseAttribute, Iteration
  <1> QED
    BY <1>1, <1>2, <1>3, <1>4, <1>5 DEF ImporterNext, Step, Returned

\* The invariant is inductive.
LEMMA ReadStep ==
    ASSUME ImporterTypeOK, AlwaysSound, ReadSoFar, [ImporterNext]_ivars
    PROVE  ReadSoFar'
  <1>1. CASE file = Unreadable
    <2>1. pc \in {"deserialize", "failed"} /\ file = Unreadable
      BY <1>1 DEF ReadSoFar
    <2>2. Deserialize \/ Verify \/ UNCHANGED <<file, pc>>
      BY <2>1 DEF ImporterNext, Step, Returned, ivars
    <2>3. file' = Unreadable /\ pc' \in {"deserialize", "failed"}
      BY <2>1, <2>2 DEF Deserialize, Verify, Enter
    <2> QED
      BY <2>3 DEF ReadSoFar
  <1>2. CASE file # Unreadable /\ pc = "failed"
    <2>1. ~Contract!Importable(file)
      BY <1>2 DEF ReadSoFar
    <2>2. UNCHANGED <<file, pc>>
      BY <1>2 DEF ImporterNext, Step, Returned, ivars, Deserialize, Verify, Enter, ImportInitializer, ImportInput,
                  ImportOutput, ParseAttribute, ImportNode, RejectGap, EndOfLoop, Iteration
    <2> QED
      BY <1>2, <2>1, <2>2 DEF ReadSoFar
  <1>3. CASE file # Unreadable /\ pc # "failed"
    <2>1. /\ InBounds /\ NamesRead /\ ValuesRead /\ ListsRead
          /\ NodesRead /\ OutputsApart /\ AttributesRead /\ TensorsRead
      BY <1>3 DEF ReadSoFar
    <2>2. CASE pc' = "failed"
      <3>1. file' = file /\ ~Contract!Importable(file)
        BY <1>3, <2>1, <2>2, FailsRightly
      <3> QED
        BY <1>3, <2>2, <3>1 DEF ReadSoFar
    <2>3. CASE pc' # "failed"
      <3>1. file' = file /\ InBounds'
        BY <1>3, <2>1, <2>3, StepReads
      <3>2. NamesRead' /\ ValuesRead' /\ ListsRead'
        BY <1>3, <2>1, <2>3, NamesReadStep, ValuesReadStep, ListsReadStep
      <3>3. NodesRead' /\ OutputsApart' /\ AttributesRead' /\ TensorsRead'
        BY <1>3, <2>1, <2>3, NodesReadStep, OutputsApartStep, AttributesReadStep, TensorsReadStep
      <3> QED
        BY <1>3, <2>3, <3>1, <3>2, <3>3 DEF ReadSoFar
    <2> QED
      BY <2>2, <2>3
  <1> QED
    BY <1>1, <1>2, <1>3

-----------------------------------------------------------------------------
(* The refinement *)

\* Once everything is read the file can be imported and the graph is its translation.
LEMMA GraphIsTranslation ==
    ASSUME ImporterTypeOK, AlwaysSound, ReadSoFar, pc = "verify"
    PROVE  Contract!Importable(file) /\ ImportedGraph = Contract!Translation(file)
  <1> DEFINE inits == Contract!NamesOf(file.initializer)
             ins   == Contract!NamesOf(file.input)
             nodes == Contract!GraphNodes(file)
             slots(n) == Elems(Given(file.node[n].input)) \cup Elems(file.node[n].output)
  <1>1. /\ file # Unreadable
        /\ InBounds /\ NamesRead /\ ValuesRead /\ ListsRead
        /\ NodesRead /\ OutputsApart /\ AttributesRead /\ TensorsRead
    BY DEF ReadSoFar
  <1>2. /\ DOMAIN file.initializer = 1 .. ReadInitializers /\ DOMAIN file.input = 1 .. ReadInputs
        /\ DOMAIN file.output = 1 .. ReadOutputs /\ DOMAIN file.node = 1 .. ReadNodes
    BY <1>1, FileLists DEF ReadInitializers, ReadInputs, ReadOutputs, ReadNodes
  <1>3. \A n \in DOMAIN file.node :
            /\ file.node[n].input \in Seq(Names) /\ file.node[n].output \in Seq(Names)
            /\ AfterGap(file.node[n].input) = {}
            /\ Given(file.node[n].input) \in Seq(Names)
    BY <1>1, <1>2, FileLists, GivenIsPrefix DEF NodesRead
  <1>4. Contract!Importable(file)
    <2>1. \A n \in DOMAIN file.node : ~Contract!HasGap(file.node[n].input)
      BY <1>3, GapSeen
    <2>2. Contract!SingleAssignment(file)
      <3> SUFFICES ASSUME NEW s \in Contract!OutputSlots(file), NEW t \in Contract!OutputSlots(file),
                          file.node[s[1]].output[s[2]] = file.node[t[1]].output[t[2]]
                   PROVE  s = t
        BY DEF Contract!SingleAssignment
      <3>1. \A r \in Contract!OutputSlots(file) :
                \E n \in DOMAIN file.node : \E k \in DOMAIN file.node[n].output : r = <<n, k>>
        BY DEF Contract!OutputSlots
      <3>2. PICK m \in DOMAIN file.node : \E j \in DOMAIN file.node[m].output : s = <<m, j>>
        BY <3>1
      <3>3. PICK j \in DOMAIN file.node[m].output : s = <<m, j>>
        BY <3>2
      <3>4. PICK n \in DOMAIN file.node : \E k \in DOMAIN file.node[n].output : t = <<n, k>>
        BY <3>1
      <3>5. PICK k \in DOMAIN file.node[n].output : t = <<n, k>>
        BY <3>4
      <3>6. m = n /\ j = k
        BY <1>1, <1>2, <3>3, <3>5 DEF OutputsApart
      <3> QED
        BY <3>3, <3>5, <3>6
    <2> QED
      BY <1>1, <2>1, <2>2 DEF Contract!Importable
  <1>5. /\ DOMAIN nodes = DOMAIN file.node
        /\ \A n \in DOMAIN file.node : /\ nodes[n].inputs = Given(file.node[n].input)
                                       /\ nodes[n].outputs = file.node[n].output
    BY <1>3, PresentIsGiven DEF Contract!GraphNodes
  <1>6. values_[builder] = Contract!Items(inits) \cup Contract!Items(ins) \cup Contract!Items(file.output)
            \cup UNION {Contract!Items(nodes[n].inputs) \cup Contract!Items(nodes[n].outputs) : n \in DOMAIN nodes}
    <2>1. /\ Contract!Items(inits) = {file.initializer[i].name : i \in 1 .. ReadInitializers}
          /\ Contract!Items(ins) = {file.input[i].name : i \in 1 .. ReadInputs}
          /\ Contract!Items(file.output) = {file.output[i] : i \in 1 .. ReadOutputs}
      BY <1>2 DEF Contract!Items, Contract!NamesOf
    <2>2. \A n \in DOMAIN nodes : Contract!Items(nodes[n].inputs) \cup Contract!Items(nodes[n].outputs) = slots(n)
      BY <1>5 DEF Contract!Items, Elems
    <2>3. UNION {Contract!Items(nodes[n].inputs) \cup Contract!Items(nodes[n].outputs) : n \in DOMAIN nodes}
             = UNION {slots(n) : n \in 1 .. ReadNodes}
      <3> HIDE DEF nodes, slots
      <3> QED
        BY <1>2, <1>5, <2>2
    <2> HIDE DEF inits, ins, nodes
    <2> QED
      BY <1>1, <2>1, <2>3 DEF ValuesRead
  <1>7. /\ NamesIn(listed["initializer"][builder]) = Contract!Chosen(inits, Contract!Firsts(inits))
        /\ NamesIn(listed["input"][builder]) = Contract!Chosen(ins, Contract!DeclaredInputs(file))
        /\ NamesIn(listed["output"][builder]) = Contract!Chosen(file.output, Contract!Firsts(file.output))
    <2>1. /\ listed["initializer"][builder] \in Seq(Value) /\ listed["input"][builder] \in Seq(Value)
          /\ listed["output"][builder] \in Seq(Value)
      BY BuilderAssumption, RolesAssumption DEF ImporterTypeOK, TypeOK
    <2>2. /\ Contract!Firsts(inits) \cap (1 .. ReadInitializers) = Contract!Firsts(inits)
          /\ Contract!DeclaredInputs(file) \cap (1 .. ReadInputs) = Contract!DeclaredInputs(file)
          /\ Contract!Firsts(file.output) \cap (1 .. ReadOutputs) = Contract!Firsts(file.output)
      BY <1>2 DEF Contract!Firsts, Contract!DeclaredInputs, Contract!NamesOf
    <2>3. /\ Lists(listed["initializer"][builder], inits, Contract!Firsts(inits), 1 .. ReadInitializers)
          /\ Lists(listed["input"][builder], ins, Contract!DeclaredInputs(file), {i \in 1 .. ReadInputs : Proper(i)})
          /\ Lists(listed["output"][builder], file.output, Contract!Firsts(file.output), 1 .. ReadOutputs)
      BY <1>1, <2>2 DEF ListsRead
    <2> HIDE DEF inits, ins
    <2> QED
      BY <2>1, <2>3, ListIsChosen
  <1>8. [n \in DOMAIN nodes_[builder] |->
            [inputs  |-> NamesIn(nodes_[builder][n].inputs),
             outputs |-> NamesIn(nodes_[builder][n].outputs), attributes |-> attributes_[n]]] = nodes
    <2>1. DOMAIN nodes_[builder] = DOMAIN file.node
      BY <1>1, <1>2 DEF NodesRead
    <2>2. ASSUME NEW n \in DOMAIN file.node
          PROVE  /\ NamesIn(nodes_[builder][n].inputs) = Contract!Present(file.node[n].input)
                 /\ NamesIn(nodes_[builder][n].outputs) = file.node[n].output
                 /\ attributes_[n] = Contract!AttributesOf(file.node[n].attribute)
      <3>1. /\ nodes_[builder][n].inputs = Ptrs(Given(file.node[n].input))
            /\ nodes_[builder][n].outputs = Ptrs(file.node[n].output)
            /\ attributes_[n] = Contract!AttributesOf(file.node[n].attribute)
        BY <1>1, <1>2 DEF NodesRead, AttributesRead
      <3>2. Contract!Present(file.node[n].input) = Given(file.node[n].input)
        BY <1>3, PresentIsGiven
      <3> QED
        BY <1>3, <3>1, <3>2, NamesInPtrs
    <2> QED
      BY <2>1, <2>2 DEF Contract!GraphNodes
  <1>9. ASSUME NEW name \in Names
        PROVE  (IF producer[Ptr(name)] = Null THEN 0 ELSE producer[Ptr(name)][2]) = Contract!DefinedBy(file, name)
    <2>1. /\ producer[Ptr(name)] = Null <=> \A n \in 1 .. ReadNodes : name \notin Elems(file.node[n].output)
          /\ \A n \in 1 .. ReadNodes : name \in Elems(file.node[n].output) => producer[Ptr(name)] = <<builder, n>>
      BY <1>1, ProducersRead
    <2>2. Contract!Defining(file, name) = {n \in 1 .. ReadNodes : name \in Elems(file.node[n].output)}
      BY <1>2 DEF Contract!Defining, Contract!Items, Elems
    <2>3. CASE producer[Ptr(name)] = Null
      <3>1. Contract!Defining(file, name) = {}
        BY <2>1, <2>2, <2>3
      <3> QED
        BY <2>3, <3>1 DEF Contract!DefinedBy
    <2>4. CASE producer[Ptr(name)] # Null
      <3>1. PICK n \in 1 .. ReadNodes : name \in Elems(file.node[n].output)
        BY <2>1, <2>4
      <3>2. producer[Ptr(name)] = <<builder, n>> /\ n \in Contract!Defining(file, name)
        BY <2>1, <2>2, <3>1
      <3>3. \A m \in Contract!Defining(file, name) : m = n
        BY <2>1, <2>2, <3>2
      <3>4. (CHOOSE m \in Contract!Defining(file, name) : TRUE) = n
        BY <3>2, <3>3
      <3>5. Contract!DefinedBy(file, name) = n
        BY <3>2, <3>4, Zenon DEF Contract!DefinedBy
      <3> QED
        BY <2>4, <3>2, <3>5
    <2> QED
      BY <2>3, <2>4
  <1>10. ASSUME NEW name \in Names
         PROVE  /\ shape_[Ptr(name)] = Contract!ShapeOf(file, name)
                /\ dtype_[Ptr(name)] = Contract!TypeOf(file, name)
                /\ data_[Ptr(name)] = Contract!DataOf(file, name)
    <2>1. /\ Contract!Initializing(file, name) \cap (1 .. ReadInitializers) = Contract!Initializing(file, name)
          /\ Stored(name) \cap (1 .. ReadInitializers) = Stored(name)
          /\ Shaped(name) \cap (1 .. ReadInputs) = Shaped(name)
          /\ Typed(name) \cap (1 .. ReadInputs) = Typed(name)
      BY <1>2 DEF Contract!Initializing, Contract!Declaring, Stored, Shaped, Typed
    <2>2. Contract!Initializing(file, name) # {} <=> Contract!IsInitializer(file, name)
      BY DEF Contract!Initializing, Contract!IsInitializer
    <2>3. /\ shape_[Ptr(name)] = LastRead(name, Shaped(name)) /\ dtype_[Ptr(name)] = LastRead(name, Typed(name))
          /\ data_[Ptr(name)] = Contract!LastEntry("initializer", Stored(name))
      BY <1>1, <2>1 DEF TensorsRead
    <2>4. LastRead(name, Shaped(name)) = Contract!ShapeOf(file, name)
      BY <2>1, <2>2 DEF LastRead, Contract!ShapeOf, Shaped
    <2>5. LastRead(name, Typed(name)) = Contract!TypeOf(file, name)
      BY <2>1, <2>2 DEF LastRead, Contract!TypeOf, Typed
    <2> QED
      BY <2>3, <2>4, <2>5 DEF Contract!DataOf, Stored
  <1> HIDE DEF inits, ins, nodes
  <1>11. /\ [name \in Names |-> IF producer[Ptr(name)] = Null THEN 0 ELSE producer[Ptr(name)][2]]
               = [name \in Names |-> Contract!DefinedBy(file, name)]
         /\ OfValues(shape_) = [name \in Names |-> Contract!ShapeOf(file, name)]
         /\ OfValues(dtype_) = [name \in Names |-> Contract!TypeOf(file, name)]
         /\ OfValues(data_) = [name \in Names |-> Contract!DataOf(file, name)]
    BY <1>9, <1>10 DEF OfValues
  <1>12. ImportedGraph = Contract!Translation(file)
    BY <1>6, <1>7, <1>8, <1>11, Zenon DEF ImportedGraph, Contract!Translation, inits, ins, nodes
  <1> QED
    BY <1>4, <1>12

\* Every step is a stutter of the contract or its answer.
LEMMA AnswerStep ==
    ASSUME ImporterTypeOK, AlwaysSound, ReadSoFar, ReadSoFar', [ImporterNext]_ivars
    PROVE  [Contract!Answer]_<<file, Answered>>
  <1>1. CASE Verify
    <2>1. /\ pc = "verify" /\ pc' = "done" /\ file' = file /\ ImportedGraph' = ImportedGraph
      BY <1>1 DEF Verify, Enter, AlwaysSound, ImportedGraph, vars, tensors, parsing, NamesIn, OfValues, Ptr
    <2>2. Contract!Importable(file) /\ ImportedGraph = Contract!Translation(file)
      BY <2>1, GraphIsTranslation
    <2> QED
      BY <2>1, <2>2 DEF Contract!Answer, Answered
  <1>2. CASE pc \notin {"done", "failed"} /\ pc' \notin {"done", "failed"} /\ file' = file
    BY <1>2 DEF Answered
  <1>3. CASE pc \notin {"done", "failed"} /\ pc' = "failed" /\ file' = file
    <2>1. ~Contract!Importable(file)
      BY <1>3 DEF ReadSoFar, Contract!Importable
    <2> QED
      BY <1>3, <2>1 DEF Contract!Answer, Answered
  <1>4. CASE UNCHANGED ivars
    BY <1>4 DEF ivars, vars, tensors, parsing, Answered, ImportedGraph, NamesIn, OfValues, Ptr
  <1>5. ImporterNext /\ ~Verify => \/ UNCHANGED ivars
                                   \/ pc \notin {"done", "failed"} /\ pc' # "done" /\ file' = file
    BY DEF ImporterNext, Step, Returned, Deserialize, Enter, ImportInitializer, ImportInput,
           ImportOutput, ParseAttribute, ImportNode, RejectGap, EndOfLoop, Iteration
  <1> QED
    BY <1>1, <1>2, <1>3, <1>4, <1>5

\* Nothing has been read.
LEMMA ReadInit == ImporterInit => ReadSoFar
  <1> SUFFICES ASSUME ImporterInit, file # Unreadable
               PROVE  ReadSoFar
    BY DEF ImporterInit, ReadSoFar
  <1>1. /\ pc = "deserialize" /\ next = 1 /\ init_names = {} /\ Init
        /\ shape_ = [v \in Value |-> Undeclared] /\ dtype_ = shape_ /\ data_ = shape_
        /\ attributes_ = << >> /\ attrs = NoAttributes /\ read = 0 /\ file \in Files
    BY DEF ImporterInit
  <1>2. ReadInitializers = 0 /\ ReadInputs = 0 /\ ReadOutputs = 0 /\ ReadNodes = 0 /\ 1 .. 0 = {}
    BY <1>1 DEF ReadInitializers, ReadInputs, ReadOutputs, ReadNodes
  <1>3. InBounds
    <2>1. ImporterTypeOK
      BY DEF ImporterInit, Init, ImporterTypeOK, TypeOK, Phases, Entry
    <2>2. /\ Len(file.initializer) \in Nat /\ Len(file.input) \in Nat
          /\ Len(file.output) \in Nat /\ Len(file.node) \in Nat
      BY <2>1, FileLists
    <2> QED
      BY <1>1, <1>2, <2>2 DEF InBounds
  <1>4. NamesRead /\ ValuesRead /\ OutputsApart
    BY <1>1, <1>2, BuilderAssumption DEF Init, NamesRead, ValuesRead, OutputsApart
  <1>5. ListsRead
    <2>1. Cardinality({}) = 0
      BY FS_EmptySet
    <2>2. \A s : Lists(<< >>, s, {}, {})
      BY <2>1 DEF Lists, Elems
    <2>3. \A r \in Roles : listed[r][builder] = << >>
      BY <1>1, BuilderAssumption DEF Init
    <2> QED
      BY <1>2, <2>2, <2>3, RolesAssumption DEF ListsRead
  <1>6. NodesRead
    BY <1>1, <1>2, BuilderAssumption DEF Init, NodesRead
  <1>7. AttributesRead
    BY <1>1, <1>2 DEF AttributesRead
  <1>8. TensorsRead
    <2>1. \A name \in Names : Ptr(name) \in Value
      BY BuilderAssumption DEF Ptr, Value
    <2> QED
      BY <1>1, <1>2, <2>1 DEF TensorsRead, LastRead, Contract!LastEntry
  <1> QED
    BY <1>1, <1>3, <1>4, <1>5, <1>6, <1>7, <1>8 DEF ReadSoFar

\* import_onnx answers once, as its contract says, whatever the file.
THEOREM ImportImplements == ImporterSpec => ImplementsContract
  <1>1. ImporterInit => AlwaysSound /\ ReadSoFar
    <2>1. ImporterInit => AlwaysSound
      BY SoundInit
    <2>2. ImporterInit => ReadSoFar
      BY ReadInit
    <2> QED
      BY <2>1, <2>2
  <1>2. ImporterTypeOK /\ AlwaysSound /\ [ImporterNext]_ivars => AlwaysSound'
    BY SoundStep
  <1>3. ImporterTypeOK /\ AlwaysSound /\ ReadSoFar /\ [ImporterNext]_ivars => ReadSoFar'
    BY ReadStep
  <1>4. ImporterInit => Contract!Init
    BY DEF ImporterInit, Contract!Init, Answered
  <1>5. ImporterTypeOK /\ AlwaysSound /\ ReadSoFar /\ ReadSoFar' /\ [ImporterNext]_ivars
            => [Contract!Answer]_<<file, Answered>>
    BY AnswerStep
  <1> QED
    BY <1>1, <1>2, <1>3, <1>4, <1>5, ImporterTypeCorrect, PTL DEF ImporterSpec, ImplementsContract, Contract!Safety

=============================================================================
