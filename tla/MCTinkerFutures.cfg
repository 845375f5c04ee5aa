SPECIFICATION Spec
CONSTANTS
    p1 = p1
    p2 = p2
    p3 = p3
    p4 = p4
    None = None
    Posts = {p1, p2, p3}
    Requests <- AllRequests
    Scenarios <- AllScenarios
    PairedHooks = 1
    ExternalSampler = FALSE
    MaxAge = 0
    MaxEntries = 1
    SweepEvery = 1
    MaxClock = 1
    MaxSettled = 1
    MaxRestarts = 1
INVARIANTS RetriesAgree FutureOfOwnRequest AnswerSettlesHold
PROPERTIES PollersHearBack
CHECK_DEADLOCK FALSE
