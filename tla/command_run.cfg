CONSTANTS
    h1 = h1
    h2 = h2
    h3 = h3
    Hosts = {h1, h2, h3}
    Nobody = Nobody
    Fanout = 2
    Ends <- TwoEnds
    Limited = TRUE
    Scripted = FALSE
    Detached = FALSE
    Stubborn = {}
    Clinging = {h1, h2, h3}
    ForeignSignal = FALSE
SYMMETRY Symmetry
SPECIFICATION Spec
INVARIANTS
    TypeOK
    Inv
    NoHostSlipsThrough
    NoneMissed
    SignalledIsCutShort
    KilledRunExits99
    SshBound
    NinetyNineMeansInterrupted
PROPERTIES
    ImplementsRunReport
