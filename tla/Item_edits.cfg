CONSTANTS
    Orders = {a, b}
    NoOrder = NoOrder
    NoObject = NoObject
    Prices = {1, 2}
    Specs <- Windowed
    DayLength = 2
    MaxGeneration = 2
    MaxUID = 1
    Faults = {"stale", "fetch", "apply"}
SPECIFICATION Spec
SYMMETRY OrderSymmetry
INVARIANTS
    NoRepeatWithoutCause
    
    NotifiedUnderThreshold
PROPERTIES
    ObservedNeverFalls
