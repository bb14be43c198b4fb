SPECIFICATION Spec
CONSTANTS
    Minute = minute
    Hourly = hourly
    Schedules = {minute, hourly}
    NoSchedule = none
    Reminding = {minute, hourly}
    Fires <- MCFires
    Window = 2
    MaxScan = 2
    MaxTime = 8
    MaxSleeps = 1
    MaxStops = 1
    MaxCuts = 1
INVARIANTS TypeOK EnqueuedOnce
PROPERTIES SentOnce FireServed
CHECK_DEADLOCK FALSE
