CONSTANTS
    None = None
    PageSize = 2
    Written <- MCWritten
    Pages <- MCPages
    HeapPages <- MCHeapPages
    Frames <- MCFrames
    InitStates <- CowStates
SPECIFICATION Spec
INVARIANTS
    WritesLandInSource
