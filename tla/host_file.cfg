CONSTANTS
    Files <- AllFiles
    MaxExpansion = 3
    MaxBound = 15
SPECIFICATION Spec
INVARIANTS
    LoadedAsDeclared
    SelectsWhatWasAsked
    ListedUnderItsHeader
