\* Statements the code contradicts (README, section 3), one at a time: TLC reports the
\* one that is not commented out.
SPECIFICATION PoolSpec
CONSTANTS
    s1 = s1
    s2 = s2
    w1 = w1
    w2 = w2
    m1 = m1
    None = None
    Sessions = {s1}
    Workers = {w1, w2}
    Models = {m1}
    VisibilityTimeout = 1
    AffinityWindow = 1
    PinTTL = 2
    MaxRaises = 1
    ModelFilter <- AnyModel

CONSTANTS MaxJobs = 3  MaxAttempts = 2  MaxCrashes = 1  MaxSlow = 1
          JobSpecs <- PipelineSpecs  CpDegree <- SameCp
INVARIANT OneLiveHolderPerSession

\* CONSTANTS MaxJobs = 1  MaxAttempts = 3  MaxCrashes = 0  MaxSlow = 0
\*           JobSpecs <- LongContextSpecs  CpDegree <- OneCpWorker
\* INVARIANT PickedUpByCapableWorker
