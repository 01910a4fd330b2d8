----------------------------- MODULE MCImporter -----------------------------
(***************************************************************************)
(* Files for TLC: every short list of declarations around one node, and    *)
(* every short list of nodes under one declaration.                        *)
(***************************************************************************)
EXTENDS Importer

CONSTANTS x, y

\* Slots of a node: left out, filled, repeated, with a gap.
InputLists  == {<<>>, <<x>>, <<EmptyName>>, <<x, EmptyName>>, <<EmptyName, x>>, <<y, x>>, <<x, x>>}
OutputLists == {<<>>, <<y>>, <<x>>, <<y, y>>, <<y, EmptyName>>, <<x, y>>}

MCNodes == {[name |-> Unnamed, input |-> i, output |-> o, attribute |-> << >>] : i \in InputLists, o \in OutputLists}

MCInitializers == [name : {x, y}, storage : {"raw", "typed", "other"}]
MCInputs == {[name |-> x, elem |-> TRUE,  shape |-> TRUE],
             [name |-> x, elem |-> FALSE, shape |-> FALSE],
             [name |-> y, elem |-> TRUE,  shape |-> FALSE]}

OneNode == [name |-> Unnamed, input |-> <<x, y>>, output |-> <<EmptyName>>, attribute |-> << >>]

\* Attributes of types that are read and of others, repeated and not.
MCAttributes == ListsUpTo([name : {"alpha", "axis"}, kept : BOOLEAN], 3)

MCFiles ==
    [initializer : ListsUpTo(MCInitializers, 2), input : ListsUpTo(MCInputs, 2),
     output : ListsUpTo({x, y}, 2), node : {<<OneNode>>}]
    \cup
    [initializer : {<< >>, <<[name |-> x, storage |-> "raw"]>>},
     input : {<<[name |-> x, elem |-> TRUE, shape |-> TRUE]>>},
     output : {<<y>>}, node : ListsUpTo(MCNodes, 2)]
    \cup
    [initializer : {<< >>}, input : {<< >>}, output : {<< >>},
     node : {<<[OneNode EXCEPT !.attribute = a], [OneNode EXCEPT !.attribute = b, !.output = <<x>>]>> :
                a \in MCAttributes, b \in {<< >>, <<[name |-> "axis", kept |-> TRUE]>>}}]
=============================================================================
