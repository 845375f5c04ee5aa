SPECIFICATION Spec
CONSTANTS
    l1 = l1
    l2 = l2
    f1 = f1
    f2 = f2
    None = None
    Sessions <- LFF
    Modes <- ModesOf
    Bases <- AnyBase
    Savers <- OneSaver
    Uses <- NoUses
    MaxSteps <- StepsOf
    MaxPasses = 1
INVARIANTS LiveIsActive
PROPERTIES TrainsPrivately
CHECK_DEADLOCK FALSE
