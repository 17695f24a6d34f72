\* Clients without a session: every pipe that closes is given up.
SPECIFICATION FairSpec
CONSTANTS
    NPipes = 2
    CleanStarts = {1}
PROPERTY ReapDrains
CHECK_DEADLOCK FALSE
