SPECIFICATION Spec
CONSTANTS
    s1 = s1
    s2 = s2
    w1 = w1
    w2 = w2
    m1 = m1
    m2 = m2
    None = None
    Sessions = {s1, s2}
    Workers = {w1, w2}
    Models = {m1, m2}
    MaxJobs = 3
    VisibilityTimeout = 1
    AffinityWindow = 0
    PinTTL = 1
    MaxAttempts = 2
    JobSpecs <- MCJobSpecs
    ModelFilter <- MCModelFilter
INVARIANTS SingleInFlight NoJobLost RetryBudget RunsInOrder
