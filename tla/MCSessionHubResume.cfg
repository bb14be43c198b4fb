SPECIFICATION Spec
CONSTANTS
    Sessions = {s1}
    NoSession = NoSession
    Runs = {r1, r2}
    NoRun = NoRun
    Clients = {c1, c2}
    Main = Main
    Requests = {"message", "cancel"}
    Grants = {TRUE, FALSE}
    Outcomes = {"Succeeded"}
    QueueSize = 1
    InboxSize = 1
    Drains = FALSE
    MaxStops = 1
    MaxLost = 0
SYMMETRY Symmetry
INVARIANTS
    HandlesAreLive
    RunningIsHosted
PROPERTIES
    ImplementsLife
CHECK_DEADLOCK FALSE
