\* The same instance, for the one property that fails.
CONSTANTS
    Codes <- MCCodes
    None = None
    Signalled = Signalled
    Windows = FALSE
SPECIFICATION FairSpec
PROPERTY SignalsForwarded
