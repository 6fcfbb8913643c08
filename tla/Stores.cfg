CONSTANTS
    Sequences = {1, 2}
    Times = {1, 2}
    BucketOf <- TimesAsBuckets
    Handlers = {1, 2}
    IsolateOf <- SameIsolate
    Materialised = FALSE
    MaxRequests = 2
    MaxLosses = 1
    Requests = {1, 2, 3}
    MaxChanges = 2
    MaxSuccess = 2
    MaxChecks = 5
    MaxSwitches = 2
    Videos = {1, 2}
    KeyOf <- ReversedKeys
    MaxStores = 2
    MaxOutside = 2
    PageVideos = {1, 2, 3, 4, 5}
    Landscape = {1, 3, 4}
    Seeds = {1, 2, 3}
    Modulus = 7
    Multiplier = 3
    Increment = 2
    Limit = 1
    ScanLimit = 2
    QueryFloor = 1
    MaxPageChanges = 2
    MaxMaps = 3
    MaxEvents = 2
    Runners = {"r1", "r2"}
    MaxRelease = 2
    MaxTroubles = 1
SPECIFICATION StoresSpec
INVARIANTS TypesOK AcknowledgedIsCounted AnswersAreFresh OutageIsAnnounced LibraryIsConsistent
PROPERTIES InstallationIsWhole
CHECK_DEADLOCK FALSE
