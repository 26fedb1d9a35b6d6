CONSTANTS
    h1 = h1
    h2 = h2
    Hosts = {h1, h2}
    Nobody = Nobody
    Terminal = Terminal
    Fanout = 1
    Ends <- AllEnds
    Limited = TRUE
    Scripted = TRUE
    Detached = TRUE
    Stubborn = {h1, h2}
    Clinging = {}
    ForeignSignal = TRUE
    Unique = {}
    Tries = 1
    MaxTyped = 1
SPECIFICATION AnsweringUserSpec
PROPERTIES
    NoRunAfterACutCopy
    LimitedRunExits
    ImplementsRun
