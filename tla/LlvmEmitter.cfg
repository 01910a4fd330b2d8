\* Two compilers, run twice, with crashes, on the same and on other paths.
SPECIFICATION Spec
CONSTANTS
    Processes = {p1, p2}
    Commands <- MCCommands
    Paths <- MCPaths
    TmpObj <- MCTmpObj
    NoPath = NoPath
    DefaultObj = "a.o"
    DefaultSo = "a.so"
    Absent = Absent
    Directories <- MCDirectories
    MaxRuns = 2
SYMMETRY Symmetry
INVARIANTS SuccessIsArtifact NoObjectLeft
\* Every command may have been run as often as the bound allows.
CHECK_DEADLOCK FALSE
