CONSTANTS
    first = first
    second = second
    Collector = Collector
    Nobody = Nobody
    Consumers <- TwoConsumers
    TotalChunks = 2
    MaxRetries = 5
    ReadsFail = FALSE
    MaxFaults = 1
    MaxRecoveries = 1
    Sources = {"switchbot"}
    SwitchBot = "switchbot"
    Isolates = {"east"}
    LegacyEnvironment = 0
    MaxVersion = 2
    MaxEnvironment = 1
    MaxUnclean = 0
    StorageFails = TRUE
SPECIFICATION ArrivalsSpec
INVARIANTS TypeOK NoChunkSkipped CompletedIsPlayed ActiveKeepsChunks NeverOrphaned AgreedIsCurrent
PROPERTIES SettledIsFinal GetsThere
CHECK_DEADLOCK FALSE
