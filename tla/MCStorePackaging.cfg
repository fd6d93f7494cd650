\* The reservation for packaging against the growth of task.json. A record is
\* shorter than metadataReserve and may grow by one byte.
CONSTANTS
    Dirs = {d1}
    NoDir = NoDir
    Downloads = {w1, w2}
    Uploader = Uploader
    Sweeper = Sweeper
    MaxBytes = 7
    MetadataReserve = 2
    CaptureReserve = 1
    MaxLen = 2
    MaxFaults = 0
    MaxCrashes = 0
SPECIFICATION Spec
SYMMETRY Symmetry
CHECK_DEADLOCK FALSE
INVARIANT PackagingFits
