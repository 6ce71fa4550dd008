\* three shells; one fork fails or one reading command ends before its input
SPECIFICATION FairSpec
CONSTANTS
    Shells = {s1, s2, s3}
    Commands = 4
    MaxLines = 2
    Cap = 1
    Faults = 1
INVARIANTS EofAfterWriter LostOnlyIfLate
PROPERTY OpenedReturns
CHECK_DEADLOCK FALSE
