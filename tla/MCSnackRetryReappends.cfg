SPECIFICATION Spec
CONSTANTS
    m1 = m1
    ana = ana
    None = None
    Messages = {m1}
    Eligible = {m1}
    Verdicts <- AllSure
    Workers = {w1}
    Attempts = 2
    MaxStalls = 1
    KeepCompleted = 1
    People = {ana}
    Owner <- Author
    Faults = {}
    MaxFaults = 0
    MaxDeliveries = 2
INVARIANTS RetryReappends
CHECK_DEADLOCK FALSE
