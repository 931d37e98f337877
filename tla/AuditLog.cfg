SPECIFICATION FairSpec
CONSTANTS
    Calls = {c1, c2}
    Live = {c1}
    Free = free
    MaxLosses = 2
INVARIANTS RecordsNeverMerge SuccessIsDurable LockIsReleased
PROPERTIES CallsReturn
CHECK_DEADLOCK FALSE
