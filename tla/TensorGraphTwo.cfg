\* Two builders that exchange pointers.
SPECIFICATION Spec
CONSTANTS
    Null = Null
    Unnamed = Unnamed
    Builders = {b1, b2}
    Names = {x}
    NodeNames = {}
    Roles = {"input"}
    MaxNodes = 1
    MaxInputs = 1
    MaxOutputs = 2
SYMMETRY Symmetry
INVARIANTS VerifyIsExact
PROPERTIES DamageIsFinal
