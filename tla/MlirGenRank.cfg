\* The ranks run_jit is said to rely on: refuted by outputs of rank 0 and 1.
SPECIFICATION Spec
CONSTANTS
    x = x
    w = w
    y = y
    z = z
    v = v
    Names = {x, w, y, z, v}
    Unbound = Unbound
    Ranks = {0, 1, 2, 3, 4}
    Graphs <- MCGraphs
INVARIANT ReturnsRankTwo
