SPECIFICATION Spec
CONSTANTS
    Taps = {tapA, tapB}
    Kinds = {"ordinary"}
    MaxRevisions = 0
    MaxFaults = 0
INVARIANT RejectionStands
CHECK_DEADLOCK FALSE
