SPECIFICATION WorkerSpec
CONSTANTS
    t1 = t1
    t2 = t2
    th1 = th1
    repoA = repoA
    repoB = repoB
    coder = coder
    poster = poster
    None = None
    Killed = Killed
    NoPage = NoPage
    Queues <- WorkerQueues
    Jobs <- WorkerJobs
    QueueOf <- WorkerQueueOf
    Workers = {coder, poster}
    ServedBy <- WorkerServedBy
    Places <- WorkerPlaces
    AttemptsOf <- WorkerAttemptsOf
    KeepOf <- WorkerKeepOf
    MaxStalls = 1
    Faults = {"lost", "late"}
    MaxFaults = 2
    Tasks = {t1, t2}
    Threads = {th1}
    ThreadOf <- MCThreadOf
    Repos = {repoA, repoB}
    RepoOf <- MCRepoOf
    MaxRuns = 3
    Characters = {"a", "b"}
    Texts <- MCTexts
    Pages <- MCPages
    EditLists <- MCEditLists
    MaxCalls = 2
    ExitCodes = {0, 1, 2}
INVARIANTS WorkerTypesOK SessionIsKept WorkEndsClean SuccessIsReal
PROPERTIES WorkerSettles AllOrNothing
CHECK_DEADLOCK FALSE
