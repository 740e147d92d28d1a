SPECIFICATION Spec
CONSTANTS
    MaxCalls = 1
    MaxAttempts = 1
    MaxDevices = 1
    MaxTries = 2
    MaxTriesOfMany = 0
INVARIANTS WatchdogIsOfLast
