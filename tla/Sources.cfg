CONSTANTS
    panel = panel
    tablet = tablet
    east = east
    west = west
    Devices <- Panels
    Payloads <- Releases
    ClaimLimit = 10
    Isolates <- TwoIsolates
    MaxRelease = 2
    MaxFailures = 1
    HalfHour = 2
    SlotsPerDay = 2
    PROFILE_DAYS = 1
    OCTOPUS_COLLECTION_DAYS = 3
    FloorSlot = 4
    MonthStart = 2
    D1_BATCH_SIZE = 2
    Charge = 2
    Late = {8}
    Corrected = {7}
    StartNow = 16
    MaxNow = 23
    MaxOutages = 2
    Window = 2
    Beyond = 2
    PerShard = 2
    Requests = {1, 2}
    MaxTime = 2
    MaxLosses = 1
    Accounts = {"d1", "d2"}
    States = {"s1", "s2"}
    Callbacks = {1, 2}
    TokenRequests = {1}
    SESSION_TTL = 1
    TOKEN_SKEW = 1
    Lifetime = 2
    MaxClock = 2
SPECIFICATION SourcesSpec
INVARIANTS AnnouncedWasCommanded FetchedIsTrue AnswersAreOfOneOrigin
PROPERTIES LatestAnnounced
CHECK_DEADLOCK FALSE
