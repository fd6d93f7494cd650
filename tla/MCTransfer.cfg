\* A package for S3, small or large, and one for YOS.
CONSTANTS
    Ids = {i1, i2}
    Yos = {i2}
    Configs = {"s3", "yos"}
    NoRec = NoRec
    MaxUploads = 2
    MaxFaults = 2
    MaxCrashes = 1
SPECIFICATION Spec
CHECK_DEADLOCK FALSE
INVARIANTS TypeOK UploadedIsThere UploadedIsDurable PartsRecorded CommittedBeforeSending
PROPERTIES TransferIsFinal ForeignKept
