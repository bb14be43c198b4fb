\* One peer, a change of its transport or presence, two sessions and a call:
\* every interleaving of write, bump, reconcile, two generations of tasks.
SPECIFICATION FairSpec
CONSTANTS
    Names = {vault}
    Calls = {c1}
    MaxWrites = 1
    MaxSessions = 2
INVARIANTS TypeOK SurfaceOwned OneTask NothingLeaks
PROPERTIES LeavesForCause Converges DeadLeaves ConnectedIsRouted
CHECK_DEADLOCK FALSE
