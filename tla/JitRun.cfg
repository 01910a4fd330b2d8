\* Agreeing and disagreeing models and options, int64_t of 6 bits.
SPECIFICATION Spec
CONSTANTS
    Functions <- MCFunctions
    Options <- MCOptions
    Dynamic = Dynamic
    NoFile = NoFile
    Missing = Missing
    Limit = 32
INVARIANTS AgreeingRunIsRight NoElementMadeUp
