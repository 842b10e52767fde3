CONSTANTS
    None = None
    PageSize = 2
    Written <- MCWritten
    Pages <- MCPages
    HeapPages <- MCHeapPages
    Frames <- MCFrames
    InitStates <- PlainStates
SPECIFICATION Spec
INVARIANTS
    WritesLandInSource
