\* Every file of MCFiles is imported as its contract says.
SPECIFICATION ImporterSpec
CONSTANTS
    x = x
    y = y
    builder = b1
    Builders = {b1}
    EmptyName = EmptyName
    Names = {EmptyName, x, y}
    NodeNames = {}
    Unnamed = Unnamed
    Roles = {"input", "output", "initializer"}
    Null = Null
    MaxNodes = 2
    MaxInputs = 2
    MaxOutputs = 2
    Files <- MCFiles
    Undeclared = Undeclared
    Unreadable = Unreadable
    Pending = Pending
    Failed = Failed
INVARIANTS VerifyNeverThrows DataMatchesType
PROPERTIES ImplementsContract AnswersAtLast
