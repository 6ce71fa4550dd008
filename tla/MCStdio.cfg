\* a line of four cells is the longest, a buffer holds six
SPECIFICATION Spec
CONSTANTS
    Scripts <- MCScripts
    MAX_LINE = 5
    BufSize = 6
    MaxRuns = 6
INVARIANTS LinesRunOnce PrintedOnce
CHECK_DEADLOCK FALSE
