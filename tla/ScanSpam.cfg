SPECIFICATION Spec
CONSTANTS
    Requests = {r1, r2, r3}
    NoReq = NoReq
    MaxNets = 2
    Overlap = TRUE
    SwallowsCancel = FALSE
    SpawnMayFail = FALSE
PROPERTIES CoherentWire
