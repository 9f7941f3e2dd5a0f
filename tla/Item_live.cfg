CONSTANTS
    Orders = {a, b}
    NoOrder = NoOrder
    NoObject = NoObject
    Prices = {2}
    Specs <- TwoSpecs
    DayLength = 1
    MaxGeneration = 2
    MaxUID = 1
    Faults = {"get", "send", "apply", "stale"}
SPECIFICATION FairSpec
PROPERTIES
    BargainAnnounced
    BargainSettles
    StatusCatchesUp
