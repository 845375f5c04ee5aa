\* Three ranks, one job of each kind, two deliveries, four jobs before the shutdown,
\* two faults of single ranks and a queue that may be down.
CONSTANTS
    j1 = j1  j2 = j2  j3 = j3  j4 = j4
    Jobs = {j1, j2, j3, j4}
    Kind <- OneOfEach
    World = 3
    MaxAttempts = 2
    MaxJobs = 4
    MaxFaults = 2
    QueueFaults = TRUE
    LoneBefore = FALSE
SPECIFICATION Spec
INVARIANTS AckMeansAllRan RanksAgree
PROPERTIES GroupFinishes
CHECK_DEADLOCK FALSE
