SPECIFICATION FairSpec
CONSTANTS
    Requests = {r1, r2, r3}
    NoReq = NoReq
    MaxNets = 2
    Overlap = FALSE
    SwallowsCancel = TRUE
    SpawnMayFail = TRUE
INVARIANTS TypeOK OneStreamOnAir NoOrphan
PROPERTIES KeepsPromise WriteAnswered NewestCloses
