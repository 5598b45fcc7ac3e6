SPECIFICATION Spec
CONSTANTS
    root = root
    reply = reply
    other = other
    d1 = d1
    d2 = d2
    earned = earned
    wfh = wfh
    None = None
    Messages = {root}
    Eligible = {root}
    ThreadReplies = {}
    Verdicts <- TwoReadings
    Days = {d1}
    Targets = {earned, wfh}
    Workers = {w1, w2}
    Attempts = 2
    MaxStalls = 1
    KeepCompleted = 2
    Effects = {"set", "request", "nothing"}
    MaxDeliveries = 2
    MaxEdits = 1
INVARIANTS ReplyIsBacked AnsweredRight
CHECK_DEADLOCK FALSE
SYMMETRY Symmetry
