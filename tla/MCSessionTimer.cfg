SPECIFICATION Spec
CONSTANTS
    NPipes = 1
    CleanStarts = {0, 1}
INVARIANT SessionTimed
CHECK_DEADLOCK FALSE
