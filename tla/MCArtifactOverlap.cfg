SPECIFICATION Spec
CONSTANTS
    None = None
    Requests = {q1, q2}
    Builders = {b1}
    Publishers = {p1, p2}
    BuildAttempts = 1
    PublishAttempts = 2
    MaxStalls = 0
    KeepBuilt = 2
    Faults = {"lost", "late"}
    MaxFaults = 1
INVARIANTS TypeOK PublishedRight
SYMMETRY Symmetry
CHECK_DEADLOCK FALSE
