CONSTANTS
    Schedules = {s1}
    ClockTimes = {0, 1}
    BadTime = BadTime
    CreateTimes = {0, 1}
    DefaultTime = 1
    Intervals = {1}
    Day = 2
    Grace = 0
    None = None
    FaultKinds = {}
    MaxTime = 2
    MaxEdits = 1
    MaxTriggers = 1
    MaxFaults = 2
    MaxPending = 2
SPECIFICATION Spec
INVARIANT JobSetInSync
CHECK_DEADLOCK FALSE
