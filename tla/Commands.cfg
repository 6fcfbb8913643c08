CONSTANTS
    panel = panel
    tablet = tablet
    release = release
    manual = manual
    Devices <- OnePanel
    Payloads <- TwoKinds
    ClaimLimit = 1
    MaxBorn = 2
    MaxRestarts = 1
    SaveResults <- DiskFails
    RetentionEnds = FALSE
SPECIFICATION Spec
INVARIANTS TypeOK OnePendingRow CompletedWasExecuted
PROPERTIES NotRepeatedUnacknowledged
CHECK_DEADLOCK FALSE
