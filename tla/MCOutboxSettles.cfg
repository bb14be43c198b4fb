SPECIFICATION FairSpec
CONSTANTS
    SourceKeys = {a, b}
    Targets = {phone, room}
    MaxRowId = 2
    MaxRank = 1
    MaxAttempts = 2
    MaxCatchup = 1
    DigestOver = 1
    LeaseTicks = 1
    BackoffTicks = 1
    LateTicks = 0
    KeepTicks = 0
    SnoozeTicks = 0
    Answers = {"retryable"}
    MaxFaults = 1
    MaxLost = 0
    Horizon = 1
PROPERTIES Settles
