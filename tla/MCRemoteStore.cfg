\* Three calls at once, an object that others may have put there, and a client of
\* S3 that sends a request twice.
CONSTANTS
    c1 = c1
    c2 = c2
    c3 = c3
    Client = {c1, c2, c3}
    None = None
    Uploads <- MCUploads
    Names <- MCNames
    Attempts = 2
SPECIFICATION FairSpec
INVARIANTS
    TypeOK
    AckedThere
    ExtractedRight
PROPERTIES
    NoLateReplace
    CallsEnd
CHECK_DEADLOCK FALSE
