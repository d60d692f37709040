\* Two processes, both storages configured: killed processes, silent servers,
\* reused PIDs, slow calls, and I/O faults as long as they last.
CONSTANTS
    p1 = p1
    p2 = p2
    Proc = {p1, p2}
    None = None
    IOFaults = TRUE
    Backends = {"remote", "source"}
SPECIFICATION FairSpec
PROPERTIES
    CallsReturn
    ImplementsBinaryCache
