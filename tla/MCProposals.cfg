SPECIFICATION Spec
CONSTANTS
    Taps = {tapA, tapB}
    Kinds = {"ordinary", "permission", "schedule"}
    MaxRevisions = 1
    MaxFaults = 2
SYMMETRY Symmetry
INVARIANTS TypeOK RunsPerApproval RunsWhatWasShown OneDecision DeniedStands GrantFollowsDecision
CHECK_DEADLOCK FALSE
