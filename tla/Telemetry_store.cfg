CONSTANTS
    Sequences <- TwoNumbers
    Times <- TwoNumbers
    BucketOf <- OwnBucket
    Handlers <- TwoNumbers
    IsolateOf <- OneIsolate
    Materialised = TRUE
    MaxRequests = 2
    MaxFaults = 0
SPECIFICATION Spec
PROPERTY CompetitorPreserved
CHECK_DEADLOCK FALSE
