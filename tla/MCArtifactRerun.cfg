SPECIFICATION PatientSpec
CONSTANTS
    None = None
    Requests = {q1, q2}
    Builders = {b1}
    Publishers = {p1}
    BuildAttempts = 2
    PublishAttempts = 2
    MaxStalls = 1
    KeepBuilt = 2
    Faults = {}
    MaxFaults = 0
INVARIANTS AnnouncedStays
CHECK_DEADLOCK FALSE
