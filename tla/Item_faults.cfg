CONSTANTS
    Orders = {a, b}
    NoOrder = NoOrder
    NoObject = NoObject
    Prices = {1, 2}
    Specs <- OneSpec
    DayLength = 1
    MaxGeneration = 1
    MaxUID = 2
    Faults = {"get", "fetch", "send", "apply", "crash", "stale"}
SPECIFICATION Spec
SYMMETRY OrderSymmetry
INVARIANTS
    TypeOK
    NoRepeatWithoutCause
    
    RecordedWasSent
    NeverForgotten
    FailureRetriedSoon
PROPERTIES
    ImplementsAlerts
