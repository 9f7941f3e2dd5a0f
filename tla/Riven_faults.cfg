CONSTANTS
    Auctions = {a, b}
    Listings <- FourListings
    Specs <- Named
    NoObject = NoObject
    DayLength = 2
    MaxDay = 2
    MaxGeneration = 1
    MaxUID = 1
    Faults = {"get", "fetch", "lookup", "send", "apply", "crash", "stale"}
SPECIFICATION Spec
SYMMETRY AuctionSymmetry
INVARIANTS
    TypeOK
    NoRepeatWithoutCause
    RecordedWasSent
    NeverForgotten
    ReportedLowest
PROPERTIES
    ImplementsAlerts
