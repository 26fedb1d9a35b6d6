CONSTANTS
    h1 = h1
    h2 = h2
    Hosts = {h1, h2}
    Nobody = Nobody
    Terminal = Terminal
    Fanout = 2
    Ends <- OneEnd
    Limited = FALSE
    Scripted = FALSE
    Detached = FALSE
    Stubborn = {}
    Clinging = {}
    ForeignSignal = FALSE
    Unique = {}
    Tries = 2
    MaxTyped = 2
SYMMETRY Symmetry
SPECIFICATION PrivilegedSpec
INVARIANTS
    PrivilegeTypeOK
    SudoNeverAbandoned
    PromptedOnlyIfNeeded
    KilledRunSaysSo
PROPERTIES
    NeverWrittenTwice
