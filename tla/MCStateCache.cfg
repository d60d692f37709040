\* Two processes that call again and again, two tools, one interval to run out.
CONSTANTS
    p1 = p1
    p2 = p2
    Proc = {p1, p2}
    None = None
    Broken = Broken
    kubectl = kubectl
    helm = helm
    Tools = {kubectl, helm}
    v1 = v1
    Versions = {v1}
    Interval = 1
    MaxTime = 1
    MaxEdits = 1
SPECIFICATION Spec
SYMMETRY ProcSymmetry
INVARIANTS
    TypeOK
    RemovalJustified
PROPERTIES
    AckedHeld
    SkipJustified
CHECK_DEADLOCK FALSE
