\* Two processes, two tools and the driver, both kinds of shim.
CONSTANTS
    p1 = p1
    p2 = p2
    Proc = {p1, p2}
    kubectl = kubectl
    toolshare = toolshare
    Tools = {kubectl, toolshare}
    DriverName = toolshare
    Windows = TRUE
SPECIFICATION Spec
INVARIANTS
    TypeOK
    SuccessComplete
    ShimsUsable
    CachedHaveShims
