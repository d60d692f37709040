\* A tool that exits with 0, 3 or 128, or killed; any number of signals.
CONSTANTS
    Codes <- MCCodes
    None = None
    Signalled = Signalled
    Windows = FALSE
SPECIFICATION FairSpec
INVARIANTS
    TypeOK
    ExitsAsTool
    ToolNotAbandoned
    NoSendToClosed
PROPERTIES
    EndsAfterTool
    InterruptEnds
