\* Liveness of a transfer to S3; each failed attempt may use up an upload.
CONSTANTS
    Ids = {i1}
    Yos = {}
    Configs = {"s3", "off"}
    NoRec = NoRec
    MaxUploads = 4
    MaxFaults = 2
    MaxCrashes = 1
SPECIFICATION FairSpec
CHECK_DEADLOCK FALSE
PROPERTIES TransferEnds UploadsCleared
