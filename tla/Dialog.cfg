SPECIFICATION FairSpec
CONSTANTS
    MaxCalls = 2
    MaxAttempts = 2
    MaxDevices = 2
    MaxTries = 2
    MaxTriesOfMany = 1
INVARIANTS TypeOK CardsWork FailureIsOfLast
PROPERTIES NeverLocked NeverStares
