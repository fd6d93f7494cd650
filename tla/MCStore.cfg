\* Two downloads, the upload worker and sweeps around a directory; writes of
\* one or two bytes against a budget that some of them exceed.
CONSTANTS
    Dirs = {d1}
    NoDir = NoDir
    Downloads = {w1, w2}
    Uploader = Uploader
    Sweeper = Sweeper
    MaxBytes = 5
    MetadataReserve = 1
    CaptureReserve = 1
    MaxLen = 2
    MaxFaults = 1
    MaxCrashes = 1
SPECIFICATION FairSpec
CHECK_DEADLOCK FALSE
INVARIANTS TypeOK Accounted WithinBudget LeaseBacked PendingHeld NothingStranded KnownIsLive
PROPERTIES RemovedGoes LeaseRefinement
