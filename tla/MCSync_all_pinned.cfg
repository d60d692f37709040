\* One process and two tools, of which one has a source but no pin.
CONSTANTS
    p1 = p1
    Proc = {p1}
    kubectl = kubectl
    helm = helm
    toolshare = toolshare
    Tools = {kubectl, helm, toolshare}
    DriverName = toolshare
    Windows = FALSE
SPECIFICATION Spec
INVARIANT AllPinnedSynced
