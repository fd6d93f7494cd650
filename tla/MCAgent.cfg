\* Two tasks for one request id, a fault and a crash anywhere.
CONSTANTS
    Ids = {i1, i2}
    Reqs = {r1}
    NoId = NoId
    NoTask = NoTask
    ResultRetention = 1
    TaskRetention = 2
    MaxFrames = 1
    MaxTime = 4
    MaxFaults = 1
    MaxCrashes = 2
SPECIFICATION Spec
SYMMETRY Symmetry
CHECK_DEADLOCK FALSE
INVARIANTS TypeOK ValidRecords RequestIndex IndexSound BackedByDisk NoForgottenRecord OneActive
    ResultBacked FramesDurable
PROPERTIES EndedOnce RetentionHonoured
