CONSTANTS
    Short = 4
    Long = 8
    RiffHeader = 2
    Containers <- AllFiles
SPECIFICATION Spec
INVARIANTS
    TypeOK
    FramingInStep
    HoldsOnePacket
    FramesAsAnnounced
PROPERTIES
    KeepsDecodeContract
    CallsReturn
CHECK_DEADLOCK FALSE
