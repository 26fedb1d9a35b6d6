CONSTANTS
    Shell = shell0
    Sub = sub
    Jobs = {j1, j2, j3}
    Deaf = {j2, j3}
    Init1 = init
    Hosts <- EveryKind
SPECIFICATION Spec
INVARIANTS
    RemoteTypeOK
    MarkerNamesALiveShell
    TameCommandIsStopped
CHECK_DEADLOCK FALSE
