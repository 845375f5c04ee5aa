SPECIFICATION FairPoolSpec
CONSTANTS
    s1 = s1
    s2 = s2
    w1 = w1
    w2 = w2
    m1 = m1
    None = None
    Sessions = {s1, s2}
    Workers = {w1, w2}
    Models = {m1}
    MaxJobs = 2
    VisibilityTimeout = 1
    AffinityWindow = 1
    PinTTL = 1
    MaxAttempts = 2
    MaxCrashes = 1
    MaxSlow = 1
    MaxRaises = 1
    JobSpecs <- TwoSessionSpecs
    ModelFilter <- AnyModel
    CpDegree <- OneCpWorker
INVARIANTS PinKeepsPeersOut SerializedUnlessLapsed
PROPERTIES ImplementsDispatch EveryJobAnswered
