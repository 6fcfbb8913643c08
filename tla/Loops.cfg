CONSTANTS
    NoOne = NoOne
    d1 = d1
    h1 = h1
    h2 = h2
    Devices <- OneDevice
    Handlers <- OneHandler
    MaxSamples = 2
    MaxClock = 1
    BatchLimit = 1
    MaxSequence = 4
    MaxCasAttempts = 2
    LegacyLast = 0
    Faults <- NetFaults
    Webhooks = {"w"}
    MaxEvents = 3
    MaxLosses = 1
    Sources = {1, 2}
    Items = {"a", "c"}
    Excluded = {"c"}
    MaxFaults = 2
    Orientations = {"both", "vertical"}
    Length <- TwoLists
    MaxSkipAttempts = 2
    MaxPages = 2
    Calls = {1, 2}
    MaxResets = 2
SPECIFICATION LoopsSpec
INVARIANTS TypesOK AwayIsControlled CollectionIsRecorded PageIsConsistent
PROPERTIES EventuallyDelivered ExitSettles NothingHangs
CHECK_DEADLOCK FALSE
