CONSTANTS
    Auctions = {a, b}
    Listings <- OneListing
    Specs <- AnySlug
    NoObject = NoObject
    DayLength = 1
    MaxDay = 2
    MaxGeneration = 2
    MaxUID = 1
    Faults = {"get", "fetch", "lookup", "send", "apply"}
SPECIFICATION FairSpec
PROPERTIES
    OfferAnnounced
    ObservedNeverFalls
\* Once the last watch is deleted there is nothing left to do.
CHECK_DEADLOCK FALSE
