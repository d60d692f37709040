\* Three processes: an owner and two waiters that race to force a release.
CONSTANTS
    p1 = p1
    p2 = p2
    p3 = p3
    Proc = {p1, p2, p3}
    None = None
    IOFaults = TRUE
    Backends = {"source"}
SPECIFICATION Spec
SYMMETRY ProcSymmetry
INVARIANTS
    TypeOK
    MutualExclusion
    LockInv
    LockAccountedFor
    CachedBinaryWhole
    ReplyJustified
