CONSTANTS
    Jobs = {j1}
    Workers = {w1}
    Slots = {k1}
    Clients = {c1}
    None = None
    MaxFaults = 0
SPECIFICATION Spec
PROPERTY FinalStatusIsFinal
CHECK_DEADLOCK FALSE
