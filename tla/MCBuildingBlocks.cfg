SPECIFICATION Spec
CONSTANTS
    Jobs = {j1, j2, j3}
    Workers = {w1, w2}
    NoWorker = NoWorker
    Attempts = 2
    MaxStalls = 1
    KeepCompleted = 1
    Garbled = Garbled
    Calendar <- MCCalendar
    Today = 4
    MaxDaysPerRange = 4
    PastWindowDays = 1
    FutureWindowDays = 3
    MaxEntries = 2
    Classifications <- MCClassifications
    p1 = p1
    ana = ana
    bob = bob
    r1 = r1
    r2 = r2
    t1 = t1
    t2 = t2
    None = None
    Recorders = {r1, r2}
    Tools = {t1, t2}
    Pledges = {p1}
    People = {ana, bob}
    Owner <- OneOwner
    Faults = {"lost", "late"}
    MaxFaults = 2
    Tables <- MCTables
    MaxRows = 3
    Names = {"cat", "leaf", "made up"}
    Blank = "-"
    Nothing = Nothing
    Callers = {c1, c2}
    Lifetime = 5
    Skew = 2
    Latency = 1
    MaxClock = 11
    CertTTL = 12
    RenewEvery = 4
    RestartEvery = 7
    JoinPatience = 1
INVARIANTS TypesOK QueueIsSound PlanIsRight LedgerIsHonest ListIsCurrent MostSpecificRow NeverSendsExpired CertificateIsValid
PROPERTIES SettledOnce EveryJobSettles BookIsKept
SYMMETRY Symmetry
