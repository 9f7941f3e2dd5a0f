CONSTANTS
    Auctions = {a, b}
    Listings <- OneListing
    Specs <- AnyQuality
    NoObject = NoObject
    DayLength = 1
    MaxDay = 1
    MaxGeneration = 1
    MaxUID = 1
    Faults = {}
SPECIFICATION Spec
INVARIANT
    NoDuplicates
\* Once the last watch is deleted there is nothing left to do.
CHECK_DEADLOCK FALSE
