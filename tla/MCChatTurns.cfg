\* A hosted turn, a direct one and a note, in every interleaving, with a restart:
\* the second turn may find a tool call in the tail its compaction keeps.
CONSTANTS
    Hosted = {t1}
    Direct = {d1}
    Notes = {n1}
    NoTurn = NoTurn
    History <- OneTurn
    MaxRestarts = 1
SPECIFICATION FairSpec
INVARIANTS TypeOK TurnsDontFork ResultsHaveCalls EntryHasTask
PROPERTIES StoppedTurnsEnd WaitersAreLetIn
CHECK_DEADLOCK FALSE
