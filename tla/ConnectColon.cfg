SPECIFICATION Spec
CONSTANTS
    Requests = {r1, r2}
    Ssids <- MCSsids
    OldNames <- MCOldNames
    Keys <- MCKeys
    ApKey <- MCApKey
    Saved <- SavedRenamed
    Altered <- MCAltered
    Overlap = FALSE
    MaxFaults = 0
PROPERTIES WipesEvery
