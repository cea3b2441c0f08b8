CONSTANTS
    Schedules = {s1}
    ClockTimes = {0, 1}
    BadTime = BadTime
    CreateTimes = {0, 1}
    DefaultTime = 1
    Intervals = {1}
    Day = 3
    Grace = 1
    None = None
    FaultKinds = {"crash"}
    MaxTime = 4
    MaxEdits = 0
    MaxTriggers = 0
    MaxFaults = 1
    MaxPending = 2
SPECIFICATION Spec
PROPERTY OverdueCatchesUp
CHECK_DEADLOCK FALSE
