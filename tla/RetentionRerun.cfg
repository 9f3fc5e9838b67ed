\* Two passes over one hour are enough; nothing fails.
CONSTANTS
    Failures = FALSE
    HourLen = 2
    RollAfter = 1
    RawKeep = 3
    HourlyKeep = 6
    PageSize = 2
    BatchSize = 2
    PassSlots = 1
    Horizon = 5
SPECIFICATION Spec
PROPERTY RerunKeepsSamples
