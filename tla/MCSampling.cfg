SPECIFICATION ServingSpec
CONSTANTS
    Tasks = {t1, t2, t3}
    Nothing = Nothing
    SamplerUses = {}
    Paths = {p1, p2}
    MaxCalls = 5
    MaxFaults = 1
    MaxEndpoints = 3
    MaxVersions = 2
    MaxSamples = 4
INVARIANTS EngineSound ServesPublished
PROPERTIES TasksFinish
CHECK_DEADLOCK FALSE
