CONSTANTS
    Shell = shell0
    Sub = sub
    Jobs = {j1}
    Deaf = {}
    Init1 = init
    Hosts <- Punctual
SPECIFICATION Spec
INVARIANT MissingMarkerMeansNothingRuns
CHECK_DEADLOCK FALSE
