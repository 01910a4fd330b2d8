------------------------------ MODULE Importer ------------------------------
(***************************************************************************)
(* import_onnx (src/importer.cpp): a file is read list by list, each entry *)
(* one step, into the GraphBuilder of module TensorGraph, which is then    *)
(* verified.  An exception leaves nothing to the caller.                   *)
(*                                                                         *)
(* The attributes of a node are kept here, beside its record in            *)
(* TensorGraph, which does not look at them.  ..._bug: as in TensorGraph.  *)
(***************************************************************************)
EXTENDS TensorGraph

CONSTANTS
    builder,     \* the GraphBuilder that import_onnx fills and returns
    Files,       \* the files it may be asked to read
    EmptyName,   \* "": a slot that is left out, but also a value name
    Undeclared,  \* an empty shape, DType::Unknown, no data
    Unreadable,  \* a path that cannot be opened or does not parse
    Pending, Failed    \* no answer yet; an exception

ASSUME BuilderAssumption == builder \in Builders /\ EmptyName \in Names
ASSUME RolesAssumption == {"input", "output", "initializer"} \subseteq Roles

\* What protobuf hands over: finite lists of messages with these fields.
ASSUME FilesAssumption == \A f \in Files :
    /\ f.initializer \in Seq([name : Names, storage : {"raw", "typed", "other"}])
    /\ f.input  \in Seq([name : Names, elem : BOOLEAN, shape : BOOLEAN])
    /\ f.output \in Seq(Names)
    /\ f.node   \in Seq([name : NodeNames \cup {Unnamed}, input : Seq(Names), output : Seq(Names),
                         attribute : Seq([name : STRING, kept : BOOLEAN])])

VARIABLES
    file,        \* the ONNX graph, see OnnxModel
    pc,          \* the function that runs: the phase of the import
    next,        \* index of its loop
    init_names,  \* the set that import_initializers fills
    shape_, dtype_, data_,  \* members of the values: the entry each was read from
    attributes_, \* of the nodes, in their order
    attrs, read  \* parse_attributes: the map it fills, the number of entries it has read

tensors == <<shape_, dtype_, data_>>
parsing == <<attributes_, attrs, read>>
ivars == <<vars, file, pc, next, init_names, tensors, parsing>>

NoAttributes == [key \in {} |-> Undeclared]

-----------------------------------------------------------------------------
Ptr(name) == <<builder, name>>
Ptrs(list) == [i \in DOMAIN list |-> Ptr(list[i])]

\* set_shape, set_value_dtype and set_value_data.
set_shape(v, entry)       == shape_' = [shape_ EXCEPT ![v] = entry]
set_value_dtype(v, entry) == dtype_' = [dtype_ EXCEPT ![v] = entry]
set_value_data(v, entry)  == data_'  = [data_ EXCEPT ![v] = entry]

\* One pass of the loop of phase over list.
Iteration(phase, list) == pc = phase /\ next \in DOMAIN list /\ next' = next + 1

\* The loop is over, or there is no loop: the next function is called.
Enter(from, to) == pc = from /\ pc' = to /\ next' = 1

-----------------------------------------------------------------------------
ImporterInit ==
    /\ Init
    /\ file \in Files \cup {Unreadable}
    /\ pc = "deserialize" /\ next = 1
    /\ init_names = {}
    /\ shape_ = [v \in Value |-> Undeclared]
    /\ dtype_ = shape_ /\ data_ = shape_
    /\ attributes_ = << >> /\ attrs = NoAttributes /\ read = 0

\* Opening or parsing the file fails, or gives the model.
Deserialize ==
    /\ IF file = Unreadable THEN Enter("deserialize", "failed")
                            ELSE Enter("deserialize", "initializers")
    /\ UNCHANGED <<vars, file, init_names, tensors, parsing>>

\* raw_data is preferred, then the typed field; with neither the data stays what it
\* was, a warning is printed and the entry counts all the same.
ImportInitializer ==
    /\ Iteration("initializers", file.initializer)
    /\ LET init  == file.initializer[next]
           v     == Ptr(init.name)
           entry == <<"initializer", next>>
       IN  /\ get_or_create_value(builder, init.name)
           /\ mark_as("initializer", builder, v)
           /\ set_shape(v, entry)
           /\ set_value_dtype(v, entry)
           /\ IF init.storage \in {"raw", "typed"} THEN set_value_data(v, entry)
                                                  ELSE UNCHANGED data_
           /\ init_names' = init_names \cup {init.name}
    /\ UNCHANGED <<links, damaged, file, pc, parsing>>

\* The name is recognised as a default value too late, after its type was written.
ImportInput_bug ==
    /\ Iteration("inputs", file.input)
    /\ LET input == file.input[next]
           v     == Ptr(input.name)
           entry == <<"input", next>>
       IN  /\ get_or_create_value(builder, input.name)
           /\ IF input.name \in init_names THEN UNCHANGED marks ELSE mark_as("input", builder, v)
           /\ IF input.elem  THEN set_value_dtype(v, entry) ELSE UNCHANGED dtype_
           /\ IF input.shape THEN set_shape(v, entry)       ELSE UNCHANGED shape_
    /\ UNCHANGED <<links, damaged, file, pc, init_names, data_, parsing>>

\* An input that is an initializer too is a default value: it is skipped, after the
\* lookup that would have created it.
ImportInput ==
    /\ Iteration("inputs", file.input)
    /\ LET input == file.input[next]
           v     == Ptr(input.name)
           entry == <<"input", next>>
       IN  /\ get_or_create_value(builder, input.name)
           /\ IF input.name \in init_names
              THEN UNCHANGED <<marks, shape_, dtype_>>
              ELSE /\ mark_as("input", builder, v)
                   /\ IF input.elem  THEN set_value_dtype(v, entry) ELSE UNCHANGED dtype_
                   /\ IF input.shape THEN set_shape(v, entry)       ELSE UNCHANGED shape_
    /\ UNCHANGED <<links, damaged, file, pc, init_names, data_, parsing>>

ImportOutput ==
    /\ Iteration("outputs", file.output)
    /\ get_or_create_value(builder, file.output[next])
    /\ mark_as("output", builder, Ptr(file.output[next]))
    /\ UNCHANGED <<links, damaged, file, pc, init_names, tensors, parsing>>

\* The positions of a node's inputs that come after an empty one.
AfterGap_bug(ins) == {j \in DOMAIN ins : ins[j] = EmptyName}   \* any slot left out
AfterGap(ins) == {j \in DOMAIN ins : ins[j] # EmptyName /\ \E i \in 1 .. j - 1 : ins[i] = EmptyName}

\* The inputs that the loop has turned into values when it meets an empty one, or the end.
Given(ins) == [i \in {k \in DOMAIN ins : \A g \in 1 .. k : ins[g] # EmptyName} |-> ins[i]]

\* A named input after an empty one: the inputs before the gap have become values.
RejectGap ==
    /\ pc = "nodes" /\ next \in DOMAIN file.node
    /\ LET ins == file.node[next].input
       IN  /\ AfterGap(ins) # {}
           /\ values_' = [values_ EXCEPT ![builder] = @ \cup Elems(Given(ins))]
    /\ pc' = "failed" /\ next' = 1
    /\ UNCHANGED <<links, marks, damaged, file, init_names, tensors, parsing>>

\* The default branch leaves the loop's body before the index has advanced.
ParseAttribute_bug ==
    /\ pc = "nodes" /\ next \in DOMAIN file.node
    /\ AfterGap(file.node[next].input) = {} /\ read + 1 \in DOMAIN file.node[next].attribute
    /\ LET attr == file.node[next].attribute[read + 1]
       IN  IF attr.kept
           THEN /\ read' = read + 1
                /\ attrs' = [key \in DOMAIN attrs \cup {attr.name} |->
                                IF key = attr.name THEN <<"attribute", read + 1>> ELSE attrs[key]]
           ELSE UNCHANGED <<read, attrs>>
    /\ UNCHANGED <<vars, file, pc, next, init_names, tensors, attributes_>>

\* Each entry overwrites what an earlier one has put under its name; an entry of another
\* type is passed over with a warning.  (The lookups of the node's values come first in the
\* code; they and this loop do not see each other.)
ParseAttribute ==
    /\ pc = "nodes" /\ next \in DOMAIN file.node
    /\ AfterGap(file.node[next].input) = {}
    /\ read + 1 \in DOMAIN file.node[next].attribute /\ read' = read + 1
    /\ LET attr == file.node[next].attribute[read + 1]
       IN  attrs' = IF attr.kept
                    THEN [key \in DOMAIN attrs \cup {attr.name} |->
                             IF key = attr.name THEN <<"attribute", read + 1>> ELSE attrs[key]]
                    ELSE attrs
    /\ UNCHANGED <<vars, file, pc, next, init_names, tensors, attributes_>>

\* The node's values are looked up or made, then add_node links it; when an output
\* has a producer already add_node throws, and import_onnx with it.
ImportNode ==
    /\ pc = "nodes" /\ next \in DOMAIN file.node
    /\ LET node == file.node[next]
           ins  == Given(node.input)
           outs == Ptrs(node.output)
       IN  /\ AfterGap(node.input) = {} /\ read = Len(node.attribute)
           /\ values_' = [values_ EXCEPT ![builder] = @ \cup Elems(ins) \cup Elems(node.output)]
           /\ add_node(builder, node.name, Ptrs(ins), outs)
           /\ damaged' = damaged \cup Harmed(builder, Ptrs(ins), outs)
           /\ attributes_' = Append(attributes_, attrs) /\ attrs' = NoAttributes /\ read' = 0
           /\ IF Throws(outs) THEN pc' = "failed" /\ next' = 1
                              ELSE pc' = pc /\ next' = next + 1
    /\ UNCHANGED <<marks, file, init_names, tensors>>

\* A function returns when its loop has gone through its list.
EndOfLoop ==
    /\ \/ next > Len(file.initializer) /\ Enter("initializers", "inputs")
       \/ next > Len(file.input)       /\ Enter("inputs", "outputs")
       \/ next > Len(file.output)      /\ Enter("outputs", "nodes")
       \/ next > Len(file.node)        /\ Enter("nodes", "verify")
    /\ UNCHANGED <<vars, file, init_names, tensors, parsing>>

Verify ==
    /\ IF verify(builder) THEN Enter("verify", "done") ELSE Enter("verify", "failed")
    /\ UNCHANGED <<vars, file, init_names, tensors, parsing>>

\* The caller has its answer.
Returned == pc \in {"done", "failed"} /\ UNCHANGED ivars

Step == \/ Deserialize
        \/ file # Unreadable /\ (ImportInitializer \/ ImportInput \/ ImportOutput \/ RejectGap
                                   \/ ParseAttribute \/ ImportNode \/ EndOfLoop)
        \/ Verify

ImporterNext == Step \/ Returned

\* import_onnx is a straight run of loops over finite lists.
ImporterSpec == ImporterInit /\ [][ImporterNext]_ivars /\ WF_ivars(Step)

-----------------------------------------------------------------------------
(* What the caller sees *)

NamesIn(list) == [i \in DOMAIN list |-> list[i][2]]
OfValues(f)   == [name \in Names |-> f[Ptr(name)]]

ImportedGraph ==
    [values  |-> values_[builder],
     initializers |-> NamesIn(listed["initializer"][builder]),
     inputs  |-> NamesIn(listed["input"][builder]),
     outputs |-> NamesIn(listed["output"][builder]),
     nodes   |-> [n \in DOMAIN nodes_[builder] |->
                     [inputs  |-> NamesIn(nodes_[builder][n].inputs),
                      outputs |-> NamesIn(nodes_[builder][n].outputs),
                      attributes |-> attributes_[n]]],
     producer |-> [name \in Names |->
                     IF producer[Ptr(name)] = Null THEN 0 ELSE producer[Ptr(name)][2]],
     shape |-> OfValues(shape_), dtype |-> OfValues(dtype_), data |-> OfValues(data_)]

Answered == IF pc = "done" THEN ImportedGraph ELSE IF pc = "failed" THEN Failed ELSE Pending

Contract == INSTANCE ImportContract WITH result <- Answered

-----------------------------------------------------------------------------
(* Properties *)

\* import_onnx answers at most once, with the graph the file describes when no input
\* list has a gap and every output slot a name of its own, with an exception otherwise.
ImplementsContract == Contract!Safety

\* It does answer: no list is read for ever, whatever entries are passed over.
AnswersAtLast == Contract!Liveness

\* The final verify() never throws: whatever the file says, an inconsistent graph
\* has made add_node throw before.
VerifyNeverThrows == pc = "verify" => verify(builder)

\* A tensor's bytes are read with the shape and the type they were stored with, also
\* when the file lists the initializer among the inputs, as old files do; ONNX
\* requires initializer names to be unique (proto/onnx.proto3:570).
DataMatchesType ==
    file # Unreadable /\ (\A i, j \in DOMAIN file.initializer :
                    file.initializer[i].name = file.initializer[j].name => i = j)
        => \A v \in Value : data_[v] # Undeclared => shape_[v] = data_[v] /\ dtype_[v] = data_[v]

=============================================================================
