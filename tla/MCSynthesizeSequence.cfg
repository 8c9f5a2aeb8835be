CONSTANTS
    Short = 4
    Long = 16
    MaxBlocks = 6
SPECIFICATION Spec
INVARIANTS
    TypeOK
    WindowBounded
    WindowHoldsNextBlock
    MatchesWholeTimeline
    DeliveredUpToCentre
    LappedBetweenCentres
CHECK_DEADLOCK FALSE
