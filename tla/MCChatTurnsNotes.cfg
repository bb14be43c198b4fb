\* One turn and one note are enough for the turn to hide the note.
CONSTANTS
    Hosted = {t1}
    Direct = {}
    Notes = {n1}
    NoTurn = NoTurn
    History <- OneTurn
    MaxRestarts = 0
SPECIFICATION Spec
INVARIANT NotesAreRead
CHECK_DEADLOCK FALSE
