CONSTANTS
    Schedules = {s1}
    ClockTimes = {0, 1}
    BadTime = BadTime
    CreateTimes = {0, 1, BadTime}
    DefaultTime = 1
    Intervals = {1}
    Day = 2
    Grace = 0
    None = None
    FaultKinds = {"stream", "store", "crash"}
    MaxTime = 3
    MaxEdits = 1
    MaxTriggers = 1
    MaxFaults = 2
    MaxPending = 3
SPECIFICATION Spec
INVARIANT TypeOK
INVARIANT JobsMirrorDocs
PROPERTY MarkedDateIsFuture
PROPERTY DueRunsAndAdvances
CHECK_DEADLOCK FALSE
