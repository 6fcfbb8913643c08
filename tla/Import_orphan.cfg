CONSTANTS
    first = first
    second = second
    Collector = Collector
    Nobody = Nobody
    Consumers <- OneConsumer
    TotalChunks = 2
    MaxRetries = 5
    ReadsFail = TRUE
    MaxFaults = 2
    MaxRecoveries = 0
SPECIFICATION Spec
INVARIANT NeverOrphaned
CHECK_DEADLOCK FALSE
