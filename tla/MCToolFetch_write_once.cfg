\* Two processes that never fail are enough to replace a cached binary.
CONSTANTS
    p1 = p1
    p2 = p2
    Proc = {p1, p2}
    None = None
    IOFaults = FALSE
    Backends = {"source"}
SPECIFICATION Spec
PROPERTY WriteOnce
