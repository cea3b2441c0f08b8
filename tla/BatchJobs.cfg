CONSTANTS
    Jobs = {j1, j2}
    Workers = {w1, w2}
    Slots = {k1}
    Clients = {c1}
    None = None
    MaxFaults = 2
SPECIFICATION Spec
INVARIANT TypeOK
INVARIANT ToldWhatWasRecorded
PROPERTY ImplementsSoleProcessing
PROPERTY QueuedIsSettled
CHECK_DEADLOCK FALSE
