CONSTANTS
    Short = 4
    Long = 16
    Hop = 1
    MinFrames = 32
    Lookahead = 16
    RingKeep = 40
    StreamTail = 40
    BatchTail = 32
    TailContext = 0
    Chunks = {3, 32}
    MaxFrames = 48
    SteadyWords = {{}, {1}}
    OddWords = {{}, {1}, {2}}
    OddFrom = 24
    MaxOdd = 1
SPECIFICATION MCSpec
INVARIANTS
    ReproducesEncodePcm
CHECK_DEADLOCK FALSE
