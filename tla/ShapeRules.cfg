\* Chains of three nodes, of every kind, on small tensors.
SPECIFICATION Spec
CONSTANTS
    Limit = 2048
    Starts <- MCStarts
    Weights <- MCWeights
    Kernels <- MCKernels
    Windows <- MCWindows
    Targets <- MCTargets
    Axes <- MCAxes
    MaxNodes = 3
INVARIANTS CompiledSizesAreOnnx StaticIsChecked SupportedCompiles
\* A chain may have reached its bound.
CHECK_DEADLOCK FALSE
