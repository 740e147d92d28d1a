SPECIFICATION Spec
CONSTANTS
    Writes = {w1, w2, w3}
    Reads = {d1, d2}
    Overlap = TRUE
    MaxFaults = 0
INVARIANTS SettledAgrees
