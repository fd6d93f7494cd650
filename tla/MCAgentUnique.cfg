\* One request id, two valid records on disk.
CONSTANTS
    Ids = {i1, i2}
    Reqs = {r1}
    NoId = NoId
    NoTask = NoTask
    ResultRetention = 1
    TaskRetention = 1
    MaxFrames = 1
    MaxTime = 2
    MaxFaults = 1
    MaxCrashes = 1
SPECIFICATION Spec
SYMMETRY Symmetry
CHECK_DEADLOCK FALSE
INVARIANT OneValidTask
