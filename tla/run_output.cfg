CONSTANTS
    h1 = h1
    h2 = h2
    h3 = h3
    Hosts = {h1, h2, h3}
    Limited = TRUE
    Detached = FALSE
    ForeignSignal = FALSE
    FoldLimit = 1
    Cap = 2
    Prints <- SomePrints
SYMMETRY Symmetry
SPECIFICATION OutputSpec
INVARIANTS
    OutputTypeOK
    ScreenIsKept
    BarTellsTheTruth
    SummaryAddsUp
    NoteIsTrue
    TruncationIsSaid
