CONSTANTS
    Short = 4
    Long = 8
    RiffHeader = 2
    Containers <- BlockSizeFiles
SPECIFICATION Spec
INVARIANT ContainerNeverInternal
CHECK_DEADLOCK FALSE
