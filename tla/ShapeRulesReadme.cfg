\* Every valid node of a supported kind: refuted by broadcasting Add, Reshape to 0 or -1, ...
SPECIFICATION Spec
CONSTANTS
    Limit = 2048
    Starts <- MCStarts
    Weights <- MCWeights
    Kernels <- MCKernels
    Windows <- MCWindows
    Targets <- MCTargets
    Axes <- MCAxes
    MaxNodes = 3
INVARIANT SupportedOpsCompile
\* A chain may have reached its bound.
CHECK_DEADLOCK FALSE
