----------------------------- MODULE OnnxModel -----------------------------
(***************************************************************************)
(* What an ONNX file says, as far as import_onnx (src/importer.cpp) reads  *)
(* it, and the graph a correct import makes of it.                         *)
(*                                                                         *)
(* A file is a record of four lists:                                       *)
(*   initializer : [name, storage]   storage "raw": raw_data is not empty, *)
(*                                   "typed": it is, and the type is one   *)
(*                                   pack_as_raw unpacks, "other": neither *)
(*   input       : [name, elem, shape]   elem, shape: whether the type     *)
(*                                   gives an element type and a shape     *)
(*   output      : names                                                   *)
(*   node        : [name, input, output, attribute]                        *)
(*   attribute   : [name, kept]      kept: its type is one that is read    *)
(* A shape, a data type, the bytes of a tensor or the value of an          *)
(* attribute are stood for by the entry of the file they were read from,   *)
(* <<list, position>>.                                                     *)
(***************************************************************************)
EXTENDS Naturals, Sequences, FiniteSets

CONSTANTS
    Names,       \* value names
    EmptyName,   \* the empty string, ONNX's mark for an optional slot left out
    Undeclared,  \* a shape, type or content nothing in the file gives
    Unreadable   \* a path that cannot be opened or does not parse

NamesOf(entries) == [i \in DOMAIN entries |-> entries[i].name]

Items(s) == {s[i] : i \in DOMAIN s}

\* The elements of s at some of its positions, in their order.
Nth(where, k) == CHOOSE i \in {j \in where : Cardinality({h \in where : h <= j}) = k} : TRUE
Chosen(s, where) == [k \in 1 .. Cardinality(where) |-> s[Nth(where, k)]]

\* Where a name is mentioned for the first time.
Firsts(s) == {i \in DOMAIN s : \A j \in 1 .. i - 1 : s[j] # s[i]}

\* The last of some positions, as an entry of the list called name.
LastEntry(name, where) ==
    IF where = {} THEN Undeclared
    ELSE <<name, CHOOSE i \in where : \A j \in where : j <= i>>

-----------------------------------------------------------------------------
(* Which files can be imported *)

\* An omitted optional input may only be followed by omitted ones.
HasGap(ins) == \E i, j \in DOMAIN ins : i < j /\ ins[i] = EmptyName /\ ins[j] # EmptyName

\* Single assignment: every output slot of every node has a name of its own.  The
\* empty name counts as a name.
OutputSlots(file) == UNION {{<<n, k>> : k \in DOMAIN file.node[n].output} : n \in DOMAIN file.node}
SingleAssignment(file) ==
    \A s, t \in OutputSlots(file) :
        file.node[s[1]].output[s[2]] = file.node[t[1]].output[t[2]] => s = t

Importable(file) ==
    /\ file # Unreadable
    /\ \A n \in DOMAIN file.node : ~HasGap(file.node[n].input)
    /\ SingleAssignment(file)

-----------------------------------------------------------------------------
(* The graph of a file *)

IsInitializer(file, name) == \E i \in DOMAIN file.initializer : file.initializer[i].name = name
Present(ins) == Chosen(ins, {i \in DOMAIN ins : ins[i] # EmptyName})

\* Attributes of other types are left out; the last entry of a name wins.
KeptAs(entries, key) == {i \in DOMAIN entries : entries[i].kept /\ entries[i].name = key}
AttributesOf(entries) ==
    [key \in {e.name : e \in {f \in Items(entries) : f.kept}} |->
        LastEntry("attribute", KeptAs(entries, key))]

GraphNodes(file) == [n \in DOMAIN file.node |->
    [inputs |-> Present(file.node[n].input), outputs |-> file.node[n].output,
     attributes |-> AttributesOf(file.node[n].attribute)]]

\* The node that defines a value, 0 when no node does.
Defining(file, name) == {n \in DOMAIN file.node : name \in Items(file.node[n].output)}
DefinedBy(file, name) ==
    IF Defining(file, name) = {} THEN 0 ELSE CHOOSE n \in Defining(file, name) : TRUE

\* An initializer's entry describes it, and the last entry of a name wins; the
\* type of an input of the same name is ignored.
Initializing(file, name) == {i \in DOMAIN file.initializer : file.initializer[i].name = name}
Declaring(file, name)    == {i \in DOMAIN file.input : file.input[i].name = name}

ShapeOf(file, name) ==
    IF IsInitializer(file, name)
    THEN LastEntry("initializer", Initializing(file, name))
    ELSE LastEntry("input", {i \in Declaring(file, name) : file.input[i].shape})

TypeOf(file, name) ==
    IF IsInitializer(file, name)
    THEN LastEntry("initializer", Initializing(file, name))
    ELSE LastEntry("input", {i \in Declaring(file, name) : file.input[i].elem})

DataOf(file, name) ==
    LastEntry("initializer", {i \in Initializing(file, name) : file.initializer[i].storage # "other"})

\* A list of the graph has each of its values once, where it is mentioned first.
DeclaredInputs(file) == {i \in Firsts(NamesOf(file.input)) : ~IsInitializer(file, file.input[i].name)}

Translation(file) ==
    LET nodes == GraphNodes(file)
    IN  [values |-> Items(NamesOf(file.initializer)) \cup Items(NamesOf(file.input))
                        \cup Items(file.output)
                        \cup UNION {Items(nodes[n].inputs) \cup Items(nodes[n].outputs) : n \in DOMAIN nodes},
         initializers |-> Chosen(NamesOf(file.initializer), Firsts(NamesOf(file.initializer))),
         inputs  |-> Chosen(NamesOf(file.input), DeclaredInputs(file)),
         outputs |-> Chosen(file.output, Firsts(file.output)),
         nodes   |-> nodes,
         producer |-> [name \in Names |-> DefinedBy(file, name)],
         shape |-> [name \in Names |-> ShapeOf(file, name)],
         dtype |-> [name \in Names |-> TypeOf(file, name)],
         data  |-> [name \in Names |-> DataOf(file, name)]]

=============================================================================
