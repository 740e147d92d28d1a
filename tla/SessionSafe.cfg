SPECIFICATION FairSession
CONSTANTS
    Requests = {r1, r2}
    NoReq = NoReq
    MaxNets = 2
    Overlap = FALSE
    SwallowsCancel = FALSE
    SpawnMayFail = TRUE
    AirMax = 1
    MaxOpen = 2
    Impatient = TRUE
    LinkDrops = TRUE
INVARIANTS SessionTypeOK ListIsTail OwnListIsComplete
PROPERTIES SettledForGood EveryCallSettles
