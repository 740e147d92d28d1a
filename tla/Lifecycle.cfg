SPECIFICATION FairSpec
CONSTANTS
    Loop = Loop
    Scan = Scan
    Guests = {g1}
    Rounds = 1
    MaxChanges = 1
    MaxFaults = 1
    MaxAttempts = 1
    SwallowsCancel = TRUE
INVARIANTS TypeOK AdvertisedServes LoopOnOpenBus
PROPERTIES Stops Serves CatchesUp
