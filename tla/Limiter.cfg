CONSTANTS
    Workers = {item, riven}
    Interval = 3
    MaxTime = 7
SPECIFICATION Spec
SYMMETRY WorkerSymmetry
INVARIANTS
    TypeOK
    WindowBound
    WaitBound
\* The clock stops at MaxTime, the workers one after the other.
CHECK_DEADLOCK FALSE
