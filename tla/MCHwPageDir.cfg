CONSTANTS
    c1 = c1
    c2 = c2
    d1 = d1
    d2 = d2
    kd = kd
    ht1 = ht1
    ht2 = ht2
    bt = bt
    f1 = f1
    f2 = f2
    fh = fh
    None = None
    Dirs <- MCDirs
    BootDir = kd
    NSlots = 2
    NEntries = 2
    PageSize = 4
    KernelSplit = 8
    HeapTables <- MCHeapTables
    BootTable = bt
    BootMap <- MCBootMap
    Frames <- MCOneFrameHigh
    BadFrames <- MCHighFrames
    CPUs <- MCCPUsOne
SPECIFICATION Spec
INVARIANTS
    SlotsConsistent
    HeapExact
PROPERTIES
    ImplementsAbstract
