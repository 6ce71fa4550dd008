\* destination_dir is the parent of source_dir
SPECIFICATION Spec
CONSTANTS
    Starts <- MCCopyToParent
    Home <- MCHome
    PathMax = 6
    Faults = 0
    Extra <- MCNone
    Size <- MCSize
    Time <- MCTime
    Readonly <- MCReadonly
    Code <- MCCode
    Deleted <- MCNone
INVARIANTS SourceUntouched
CHECK_DEADLOCK FALSE
