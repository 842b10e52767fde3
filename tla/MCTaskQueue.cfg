CONSTANTS
    p1 = p1
    p2 = p2
    None = None
    Tasks <- TwoTasksEach
    Prios <- MCPrios
SPECIFICATION Spec
INVARIANTS
    QueueSorted
    EqualPriorityFifo
