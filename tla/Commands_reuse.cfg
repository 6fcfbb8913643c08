CONSTANTS
    panel = panel
    tablet = tablet
    release = release
    manual = manual
    Devices <- OnePanel
    Payloads <- OneKind
    ClaimLimit = 1
    MaxBorn = 2
    MaxRestarts = 0
    SaveResults <- DiskWorks
    RetentionEnds = TRUE
SPECIFICATION Spec
INVARIANTS CompletedWasExecuted
CHECK_DEADLOCK FALSE
