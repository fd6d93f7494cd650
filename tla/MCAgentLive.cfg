\* Liveness: no symmetry, one id more than a crash can interrupt.
CONSTANTS
    Ids = {i1, i2}
    Reqs = {r1}
    NoId = NoId
    NoTask = NoTask
    ResultRetention = 1
    TaskRetention = 1
    MaxFrames = 1
    MaxTime = 1
    MaxFaults = 1
    MaxCrashes = 1
SPECIFICATION FairSpec
CHECK_DEADLOCK FALSE
PROPERTIES AcceptedTaskEnds ExpiredTaskRemoved
