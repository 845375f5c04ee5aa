\* Statements the code contradicts (README, section 3), one at a time: TLC reports the
\* one that is not commented out.
SPECIFICATION Spec
CONSTANTS
    a = a
    b = b
    r1 = r1
    r2 = r2
    Sessions = {a, b}
    Reqs = {r1, r2}
    Parts <- TwoParts
    MaxSessions = 1
    ListLimit = 1
    Fleets <- AllFleets
    MaxFaults = 1
    MaxFleetChanges = 1
CHECK_DEADLOCK FALSE

CONSTANTS Scenarios <- AllScenarios  MaxGen = 1
PROPERTY TerminatedStays

\* CONSTANTS Scenarios <- SaveBesideOp  MaxGen = 3
\* INVARIANT SavedWhole

\* CONSTANTS Scenarios <- AllScenarios  MaxGen = 1
\* INVARIANT RefusedFreesPlace
