SPECIFICATION Spec
CONSTANTS
    MaxStarts = 3
    WaitSteps = 2
    LoopCounts = {0, 2}
    Overlaps = FALSE
CHECK_DEADLOCK FALSE
INVARIANTS
    TypeOK
    WorkerHasHandle
PROPERTY GoesDown
