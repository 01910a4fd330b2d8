\* The claim of --run, for every model with one input and one output.
SPECIFICATION Spec
CONSTANTS
    Functions <- MCFunctions
    Options <- MCOptions
    Dynamic = Dynamic
    NoFile = NoFile
    Missing = Missing
    Limit = 32
INVARIANTS RunsTheModel
