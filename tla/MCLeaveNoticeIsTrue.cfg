SPECIFICATION Spec
CONSTANTS
    root = root
    reply = reply
    other = other
    d1 = d1
    d2 = d2
    earned = earned
    wfh = wfh
    None = None
    Messages = {reply}
    Eligible = {reply}
    ThreadReplies = {reply}
    Verdicts <- OneWay
    Days = {d1}
    Targets = {earned, wfh}
    Workers = {w1}
    Attempts = 2
    MaxStalls = 1
    KeepCompleted = 2
    Effects = {"set", "request", "nothing", "late"}
    MaxDeliveries = 2
    MaxEdits = 1
INVARIANTS NoticeIsTrue
CHECK_DEADLOCK FALSE
