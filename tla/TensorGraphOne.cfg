\* One builder: failed add_node calls, repeated and taken outputs, node names.
SPECIFICATION Spec
CONSTANTS
    Null = Null
    Unnamed = Unnamed
    Builders = {b1}
    Names = {x, y}
    NodeNames <- ClashingName
    Roles = {}
    MaxNodes = 3
    MaxInputs = 1
    MaxOutputs = 2
SYMMETRY Symmetry
INVARIANTS TypeOK LinksMirrored VerifyIsExact ClashIsExplicit
PROPERTIES ProducerIsFinal
