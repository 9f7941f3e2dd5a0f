CONSTANTS
    i1 = i1
    i2 = i2
    r1 = r1
    ItemWatches = {i1, i2}
    RivenWatches = {r1}
    Nobody = Nobody
    Period = 4
    ReconcileTime = 1
    FirstBackoff = 2
    MaxBackoff = 7
    LeaseDuration = 2
    MaxDisturbances = 2
    MaxIncidents = 3
SPECIFICATION Spec
SYMMETRY Alike
INVARIANTS
    TypeOK
    LookedAtInTime
