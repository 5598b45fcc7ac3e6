SPECIFICATION Spec
CONSTANTS
    None = None
    Requests = {q1, q2}
    Builders = {b1}
    Publishers = {p1, p2}
    BuildAttempts = 2
    PublishAttempts = 2
    MaxStalls = 0
    KeepBuilt = 2
    Faults = {}
    MaxFaults = 0
INVARIANTS OneArtifact
CHECK_DEADLOCK FALSE
