SPECIFICATION Spec
CONSTANTS
    SourceKeys = {a, b}
    Targets = {phone}
    MaxRowId = 2
    MaxRank = 1
    MaxAttempts = 2
    MaxCatchup = 1
    DigestOver = 1
    LeaseTicks = 1
    BackoffTicks = 1
    LateTicks = 1
    KeepTicks = 1
    SnoozeTicks = 1
    Answers = {"accepted", "gone", "retryable", "unconfigured"}
    MaxFaults = 1
    MaxLost = 1
    Horizon = 1
SYMMETRY Symmetry
INVARIANTS TypeOK PassHoldsOpenRows SendsBounded SnoozeKeyFree
PROPERTIES ResolvedStaysQuiet
