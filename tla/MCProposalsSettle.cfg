SPECIFICATION FairSpec
CONSTANTS
    Taps = {tapA}
    Kinds = {"ordinary", "permission", "schedule"}
    MaxRevisions = 1
    MaxFaults = 2
PROPERTIES ApprovedRuns ExpiredCloses
CHECK_DEADLOCK FALSE
