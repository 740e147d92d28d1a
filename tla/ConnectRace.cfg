SPECIFICATION FairSpec
CONSTANTS
    Requests = {r1, r2}
    Ssids <- MCSsids
    OldNames <- MCOldNames
    Keys <- MCKeys
    ApKey <- MCApKey
    Saved <- SavedAmbiguous
    Altered = {"Cafe"}
    Overlap = TRUE
    MaxFaults = 1
INVARIANTS TypeOK NamesFollowSsids
PROPERTIES WipesDistinct FreshProfileWins OkMeansJoined OthersUntouched ConnectAnswered
