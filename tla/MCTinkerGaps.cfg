\* Statements the code contradicts (README, section 3), one at a time: TLC reports the
\* one that is not commented out.
SPECIFICATION Spec
CONSTANTS
    p1 = p1
    p2 = p2
    p3 = p3
    p4 = p4
    None = None
    Requests <- AllRequests
    PairedHooks = 1
    ExternalSampler = FALSE
CHECK_DEADLOCK FALSE

CONSTANTS Posts = {p1, p2, p3}  Scenarios <- RetryOnly  MaxAge = 0  MaxEntries = 1
          SweepEvery = 2  MaxClock = 1  MaxSettled = 2  MaxRestarts = 1
INVARIANT OneJobPerRequest

\* CONSTANTS Posts = {p1, p2, p3}  Scenarios <- RetryOnly  MaxAge = 0  MaxEntries = 1
\*           SweepEvery = 2  MaxClock = 1  MaxSettled = 2  MaxRestarts = 1
\* INVARIANT SettledOnce

\* CONSTANTS Posts = {p1, p2, p3, p4}  Scenarios <- LateRetry  MaxAge = 1  MaxEntries = 4
\*           SweepEvery = 3  MaxClock = 2  MaxSettled = 1  MaxRestarts = 0
\* PROPERTY ReplyIsLive
