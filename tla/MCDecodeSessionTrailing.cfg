CONSTANTS
    Short = 4
    Long = 8
    RiffHeader = 2
    Containers <- TrailingFiles
SPECIFICATION Spec
INVARIANT PendingBounded
CHECK_DEADLOCK FALSE
