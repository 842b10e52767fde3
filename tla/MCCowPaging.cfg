CONSTANTS
    p1 = p1
    p2 = p2
    p3 = p3
    t1 = t1
    t2 = t2
    t3 = t3
    h1 = h1
    h2 = h2
    None = None
    Procs <- MCProcs3
    Threads <- MCThreads3
    HeapSlots <- MCHeapSlots
    Pages <- MCPages
    Frames <- MCFrames6
    Vals <- MCVals
    InitFrameOf <- MCInitFrameOf
    InitHeapFrame <- MCInitHeapFrame
    TaskOf <- OneThreadEach3
SPECIFICATION Spec
SYMMETRY ForkSymmetry
INVARIANTS
    BitsetExact
    RefCountExact
    WritableExclusive
PROPERTIES
    Isolation
