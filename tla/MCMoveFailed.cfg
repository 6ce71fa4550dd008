\* one copy fails
SPECIFICATION Spec
CONSTANTS
    Starts <- MCMoveBeside
    Home <- MCHome
    PathMax = 6
    Faults = 1
    Extra <- MCNone
    Size <- MCSize
    Time <- MCTime
    Readonly <- MCReadonly
    Code <- MCCode
    Deleted <- MCNone
INVARIANTS DeletesOnlyAfterSuccess
CHECK_DEADLOCK FALSE
