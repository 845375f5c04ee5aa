\* Statements the code contradicts (README, section 3), one at a time: TLC reports the
\* one that is not commented out.
CONSTANTS
    j1 = j1  j2 = j2  j3 = j3  j4 = j4
    Jobs = {j1, j2, j3, j4}
    Kind <- OneOfEach
    World = 3
    MaxAttempts = 2
    MaxJobs = 4
    MaxFaults = 2
SPECIFICATION Spec
CHECK_DEADLOCK FALSE

CONSTANTS QueueFaults = TRUE  LoneBefore = FALSE
PROPERTY FollowersReleased

\* CONSTANTS QueueFaults = FALSE  LoneBefore = TRUE
\* PROPERTY GroupFinishes
