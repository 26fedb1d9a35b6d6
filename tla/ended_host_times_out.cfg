CONSTANTS
    Symbols = {"r", "s"}
    Marker <- RshxMarker
    Cap = 1
    Limit = 2
    Grace = 1
    Tries = 0
    MaxVisible = 0
    MaxOthers = 1
    MaxTime = 3
SPECIFICATION FairSpec
PROPERTIES
    EndedIsNotTimedOut
