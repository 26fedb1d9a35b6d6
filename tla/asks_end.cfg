CONSTANTS
    h1 = h1
    h2 = h2
    Hosts = {h1, h2}
    Nobody = Nobody
    Terminal = Terminal
    Fanout = 2
    Ends <- OneEnd
    Limited = FALSE
    Scripted = FALSE
    Detached = FALSE
    Stubborn = {h1}
    Clinging = {}
    ForeignSignal = FALSE
    Unique = {h2}
    Tries = 1
    MaxTyped = 1
SPECIFICATION AnsweringUserSpec
INVARIANTS
    PasswordsKeptApart
PROPERTIES
    AskersAreReleased
    EscalationKills
    InterruptedRunExits
