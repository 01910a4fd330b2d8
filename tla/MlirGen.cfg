\* One node of every kind and every pair of elementwise nodes.
SPECIFICATION Spec
CONSTANTS
    x = x
    w = w
    y = y
    z = z
    v = v
    Names = {x, w, y, z, v}
    Unbound = Unbound
    Ranks = {0, 1, 2, 3, 4}
    Graphs <- MCGraphs
INVARIANTS OperandsAreLatest OperandsAreProducers EmitsExactlySorted WellFormedCompiles
PROPERTIES Terminates
