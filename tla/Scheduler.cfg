CONSTANTS
    weather = weather
    octopus = octopus
    NoJob = NoJob
    NoAlarm = NoAlarm
    Jobs <- TwoJobs
    SystemJobs <- OneSystemJob
    Refreshable <- TwoJobs
    Interval <- ShortIntervals
    MinRetry = 1
    MaxExponent = 1
    RecoveryDelay = 2
    MaxTime = 3
    MaxRefreshes = 1
    MaxFaults = 2
    OldLease = 2
    Faults <- AnyFaults
SPECIFICATION FairSpec
INVARIANTS TypeOK AlarmChain AlarmCoversTable RefreshKept
PROPERTY DueJobRuns
CHECK_DEADLOCK FALSE
