SPECIFICATION Spec
CONSTANTS
    NPipes = 2
    CleanStarts = {0, 1}
INVARIANT TypeOK
INVARIANT FreedUnused
INVARIANT ReapedOnce
INVARIANT SessionIntact
INVARIANT EndsOnce
CHECK_DEADLOCK FALSE
