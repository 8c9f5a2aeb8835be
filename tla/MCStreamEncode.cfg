CONSTANTS
    Short = 8
    Long = 32
    Hop = 2
    MinFrames = 64
    Lookahead = 32
    RingKeep = 72
    StreamTail = 128
    TailContext = 1
    Chunks = {5, 24, 90}
    MaxFrames = 90
    MaxOdd = 1
SPECIFICATION MCSpec
INVARIANTS
    TypeOK
    NoInternalError
    QuantaNeverSkipped
    LookaheadSuffices
    PlannerInStep
    DeferredTailBounded
    EndsAtSource
    RenderedCoversSource
PROPERTIES
    ScannedSlotsFinal
    CallsReturn
CHECK_DEADLOCK FALSE
