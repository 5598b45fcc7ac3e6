SPECIFICATION Spec
CONSTANTS
    d1 = d1
    d2 = d2
    d3 = d3
    pr1 = pr1
    pr2 = pr2
    ticket = ticket
    mail1 = mail1
    mail2 = mail2
    mail3 = mail3
    detector = detector
    syncer = syncer
    notifier = notifier
    drafter = drafter
    filer = filer
    None = None
    Queues <- MCQueues
    Jobs <- MCJobs
    QueueOf <- MCQueueOf
    Workers = {detector, syncer, notifier, drafter, filer}
    ServedBy <- MCServedBy
    Places <- MCPlaces
    AttemptsOf <- MCAttemptsOf
    KeepOf <- MCKeepOf
    MaxStalls = 1
    Faults = {"lost", "late"}
    MaxFaults = 2
    Deliveries = {d1, d2, d3}
    PullOf <- MCPullOf
    Pulls = {pr1, pr2}
    Merged = {pr1}
    FromSource = {pr1, pr2}
    Denied = {}
    TouchRoutes = {pr1, pr2}
    AuthorFound = {pr1, pr2}
    MaxSyncs = 2
    Tickets = {ticket}
    Mails = {mail1, mail2, mail3}
    TicketOf <- MCTicketOf
    Incoming = {mail1, mail2}
    Bodies <- MCBodies
    Treatments = {"complaint", "request"}
    Clients = {"github", "sentry"}
    Mentions = {"mention1", "mention2"}
    ReplyFaults = {"lost", "late"}
    MaxTroubles = 2
INVARIANTS TypesOK SyncIsRight CommentsAreDue NoMailLeftBehind ListensFullyEquipped OneReplyPerMention
PROPERTIES EverythingSettles FieldsAreFinal QueuesAreJobQueues
CHECK_DEADLOCK FALSE
