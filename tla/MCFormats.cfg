CONSTANTS
    MaxLength = 7
    Unit = 2
    Library <- MCLibrary
    Scales <- MCScales
    Streams <- MCStreams
    Blocks <- MCBlocks
    Base = 16
    Files <- MCFiles
SPECIFICATION MCSpec
INVARIANTS
    DecodesWhatWasCoded
    ReadersAgreeWithPlan
PROPERTIES
    ImplementsFraming
CHECK_DEADLOCK FALSE
