\* every option: -copyd and -dmove over every kind of entry and of old destination, the
\* walks with an entry that comes or goes, and one failing call
SPECIFICATION Spec
CONSTANTS
    Starts <- MCStarts
    Home <- MCHome
    PathMax = 6
    Faults = 1
    Extra <- MCNew
    Size <- MCSize
    Time <- MCTime
    Readonly <- MCReadonly
    Code <- MCCode
    Deleted <- MCDeleted
INVARIANTS CopiedOrCounted GoneOrReported ReportSpansWalk ChangesOnlyNamed
CHECK_DEADLOCK FALSE
