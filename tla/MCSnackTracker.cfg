SPECIFICATION Spec
CONSTANTS
    m1 = m1
    ana = ana
    None = None
    Messages = {m1}
    Eligible = {m1}
    Verdicts <- Unsure
    Workers = {w1, w2}
    Attempts = 2
    MaxStalls = 1
    KeepCompleted = 0
    People = {ana}
    Owner <- Author
    Faults = {"lost", "late"}
    MaxFaults = 2
    MaxDeliveries = 2
INVARIANTS TypeOK NotedOnce
CHECK_DEADLOCK FALSE
