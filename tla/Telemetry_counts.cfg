CONSTANTS
    NoOne = NoOne
    d1 = d1
    h1 = h1
    h2 = h2
    Devices <- OneDevice
    Handlers <- TwoHandlers
    MaxSamples = 2
    MaxClock = 2
    BatchLimit = 1
    MaxSequence = 3
    MaxCasAttempts = 2
    LegacyLast = 0
    Faults <- AllFaults
SPECIFICATION Spec
INVARIANTS TypeOK AcknowledgedIsCounted AcknowledgedIsCovered
PROPERTIES MergesKeepCounts KeptUntilCounted
SYMMETRY AlikeHandlers
CHECK_DEADLOCK FALSE
