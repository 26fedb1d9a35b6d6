CONSTANTS
    Symbols = {"r", "s"}
    Marker <- RshxMarker
    Cap = 1
    Limit = 2
    Grace = 1
    Tries = 1
    MaxVisible = 2
    MaxOthers = 1
    MaxTime = 4
SPECIFICATION FairSpec
INVARIANTS
    TypeOK
    NeverOverslept
    KeptAsPrinted
    AskedAsSudoAsks
PROPERTIES
    NeverCutEarly
    LimitEnds
