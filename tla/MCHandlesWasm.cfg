CONSTANTS
    WasmKinds = {"encode", "decode"}
    PcmBlock = 2
    MaxMade = 5
    MaxBatch = 4
    MaxBlocks = 2
    Threads = {1, 2, 3}
    MaxWrites = 2
SPECIFICATION MCSpec
INVARIANTS
    DefectEndsHandle
CHECK_DEADLOCK FALSE
