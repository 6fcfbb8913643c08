CONSTANTS
    panel = panel
    tablet = tablet
    release = release
    manual = manual
    Devices <- OnePanel
    Payloads <- TwoKinds
    ClaimLimit = 1
    MaxBorn = 2
    MaxRestarts = 0
    SaveResults <- DiskWorks
    RetentionEnds = TRUE
SPECIFICATION FairSpec
PROPERTIES CommandSettles
CHECK_DEADLOCK FALSE
