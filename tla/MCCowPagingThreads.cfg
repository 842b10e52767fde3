CONSTANTS
    p1 = p1
    p2 = p2
    p3 = p3
    t1 = t1
    t2 = t2
    t3 = t3
    h1 = h1
    h2 = h2
    None = None
    Procs <- MCProcs
    Threads <- MCThreads
    HeapSlots <- MCHeapSlots
    Pages <- MCPages
    Frames <- MCFrames
    Vals <- MCVals
    InitFrameOf <- MCInitFrameOf
    InitHeapFrame <- MCInitHeapFrame
    TaskOf <- SameProcess
SPECIFICATION Spec
INVARIANTS
    BitsetExact
