\* A pass that may be interrupted anywhere, again and again.
CONSTANTS
    Failures = TRUE
    HourLen = 2
    RollAfter = 1
    RawKeep = 3
    HourlyKeep = 4
    PageSize = 2
    BatchSize = 2
    PassSlots = 1
    Horizon = 7
SPECIFICATION FairSpec
INVARIANTS TypeOK NoHourLost
PROPERTIES DeletedWasCounted OldRowsGo
