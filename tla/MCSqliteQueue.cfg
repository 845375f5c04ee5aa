SPECIFICATION Spec
CONSTANTS
    s1 = s1
    g1 = g1
    g2 = g2
    w1 = w1
    w2 = w2
    m1 = m1
    m2 = m2
    None = None
    Sessions = {s1}
    Workers = {w1, w2}
    Models = {m1, m2}
    Gateways = {g1, g2}
    MaxJobs = 3
    VisibilityTimeout = 1
    PinTTL = 1
    MaxAttempts = 2
    JobSpecs <- MCJobSpecs
    ModelFilter <- MCModelFilter
INVARIANTS OneInFlightPerSession RunsAfterPredecessors
PROPERTIES AnswersStay
SYMMETRY GatewaySymmetry
