\* A torn line and a crash inside its repair.
CONSTANTS
    Ids = {i1}
    Reqs = {r1}
    NoId = NoId
    NoTask = NoTask
    ResultRetention = 1
    TaskRetention = 2
    MaxFrames = 1
    MaxTime = 1
    MaxFaults = 1
    MaxCrashes = 2
SPECIFICATION Spec
SYMMETRY Symmetry
CHECK_DEADLOCK FALSE
INVARIANT RecordedFramesKept
