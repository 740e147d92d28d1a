SPECIFICATION SessionSpec
CONSTANTS
    Requests = {r1, r2}
    NoReq = NoReq
    MaxNets = 2
    Overlap = FALSE
    SwallowsCancel = FALSE
    SpawnMayFail = TRUE
    AirMax = 2
    MaxOpen = 2
    Impatient = FALSE
    LinkDrops = FALSE
INVARIANTS ListIsComplete
