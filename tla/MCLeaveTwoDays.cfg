SPECIFICATION FairSpec
CONSTANTS
    root = root
    reply = reply
    other = other
    d1 = d1
    d2 = d2
    earned = earned
    wfh = wfh
    None = None
    Messages = {reply, other}
    Eligible = {reply}
    ThreadReplies = {reply}
    Verdicts <- Wavering
    Days = {d1, d2}
    Targets = {earned, wfh}
    Workers = {w1}
    Attempts = 2
    MaxStalls = 0
    KeepCompleted = 2
    Effects = {"set", "late"}
    MaxDeliveries = 1
    MaxEdits = 0
INVARIANTS TypeOK ReplyIsBacked OnlyWhatWasAsked AnsweredRight
PROPERTIES EveryMessageSettles
CHECK_DEADLOCK FALSE
