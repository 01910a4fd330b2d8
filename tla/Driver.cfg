\* Two runs in a directory, with crashes: each command line after each other, and two
\* compilers at once with paths of their own.
SPECIFICATION DriverSpec
CONSTANTS
    Processes = {p1, p2}
    Commands <- MCCommands
    Requests <- MCRequests
    Models <- MCModels
    Paths <- MCPaths
    TmpObj <- MCTmpObj
    NoPath = NoPath
    DefaultObj = "a.o"
    DefaultSo = "a.so"
    Absent = Absent
    Directories <- MCDirectories
    MaxRuns = 2
CONSTRAINT Beside
INVARIANTS ExitZeroServes StaticModelIsLowered
PROPERTIES BadModelTouchesNothing ConflictTouchesNothing
\* The program may have been run as often as the bound allows.
CHECK_DEADLOCK FALSE
