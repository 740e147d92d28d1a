SPECIFICATION Spec
CONSTANTS
    Writes = {w1, w2, w3}
    Reads = {d1, d2}
    Overlap = FALSE
    MaxFaults = 2
INVARIANTS TypeOK ReadsLastOk SettledAgrees
PROPERTIES OkMeansSwitched
