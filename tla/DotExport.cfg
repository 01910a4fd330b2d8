\* One builder, every marking of two values, two nodes whose names and ids may clash.
SPECIFICATION Spec
CONSTANTS
    Null = Null
    Unnamed = Unnamed
    f = f
    x = x
    y = y
    Builders = {b1}
    Names = {x, y}
    NodeNames = {f}
    Input = Input
    Output = Output
    Initializer = Initializer
    Roles = {Input, Output, Initializer}
    dot_id <- MCDotId
    MaxNodes = 2
    MaxInputs = 2
    MaxOutputs = 1
SYMMETRY Symmetry
INVARIANTS NoDanglingEdge EdgesAreLinks RowsAreOwn
