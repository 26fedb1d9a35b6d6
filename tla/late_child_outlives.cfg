CONSTANTS
    h1 = h1
    h2 = h2
    Hosts = {h1, h2}
    Nobody = Nobody
    Fanout = 2
    Ends <- OneEnd
    Limited = FALSE
    Scripted = FALSE
    Detached = FALSE
    Stubborn = {h1, h2}
    Clinging = {}
    ForeignSignal = FALSE
SPECIFICATION FairSpec
PROPERTIES
    InterruptKills
