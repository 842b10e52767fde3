CONSTANTS
    c1 = c1
    c2 = c2
    c3 = c3
    p1 = p1
    p2 = p2
    a1 = a1
    None = None
    Threads <- MCThreads
    Procs <- MCProcs
    Addrs <- MCAddrs
SPECIFICATION Spec
INVARIANTS
    StaleCovered
PROPERTIES
    UpdateCompletes
