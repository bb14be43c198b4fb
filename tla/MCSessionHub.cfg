SPECIFICATION FairSpec
CONSTANTS
    Sessions = {s1}
    NoSession = NoSession
    Runs = {r1}
    NoRun = NoRun
    Clients = {c1}
    Main = Main
    Requests = {"message", "park", "await"}
    Grants = {TRUE, FALSE}
    Outcomes = {"Succeeded"}
    QueueSize = 1
    InboxSize = 1
    Drains = TRUE
    MaxStops = 1
    MaxLost = 1
INVARIANTS
    TypeOK
    NeverUnasked
    RunningIsHosted
PROPERTIES
    BootSettles
    StopEnds
CHECK_DEADLOCK FALSE
