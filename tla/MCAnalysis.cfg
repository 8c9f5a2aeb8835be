CONSTANTS
    CurveBias = 3
    Channels = 3
    Loud = {0, 2}
    Faults = {0, 2}
    Level = 2
    Decay = 1
    MaxBlocks = 12
    LongAt = {1, 2, 4, 12}
    Caps = {1, 2}
    Ears = 2
    Bands = 1
    BandSlots = 6
    EnergySlots = 3
    QuietLimit = 6
    RiseOver = 2
    FallUnder <- MCFallUnder
    Carry = 2
    Sounds <- MCSounds
    MaxQuanta = 10
    MaxLevel = 15
    MaxOver = 3
    MaxUnder = 2
    MaxErr = 2
    PrimaryWeight = 1
    Spectra <- MCSpectra
SPECIFICATION MCSpec
INVARIANTS
    ReadsPrecedingBlock
    RingsRememberThePast
    FitNeighboursEnclose
    FitIsCodable
PROPERTIES
    SameAsSequential
    RunEasesOff
    BlocksAnswered
CHECK_DEADLOCK FALSE
