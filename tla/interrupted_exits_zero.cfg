CONSTANTS
    h1 = h1
    h2 = h2
    Hosts = {h1, h2}
    Nobody = Nobody
    Fanout = 1
    Ends <- OneEnd
    Limited = FALSE
    Scripted = FALSE
    Detached = FALSE
    Stubborn = {}
    Clinging = {}
    ForeignSignal = FALSE
SYMMETRY Symmetry
SPECIFICATION Spec
INVARIANTS
    ZeroMeansEveryHost
