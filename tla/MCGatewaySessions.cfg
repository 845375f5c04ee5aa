SPECIFICATION Spec
CONSTANTS
    a = a
    b = b
    r1 = r1
    r2 = r2
    Sessions = {a, b}
    Reqs = {r1, r2}
    Scenarios <- AllScenarios
    Parts <- TwoParts
    MaxSessions = 1
    ListLimit = 1
    Fleets <- AllFleets
    MaxGen = 1
    MaxFaults = 1
    MaxFleetChanges = 1
INVARIANTS QuotaUnlessRaced QuietEndIsFinal ActiveIsBacked
PROPERTIES HandlersEnd
CHECK_DEADLOCK FALSE
