SPECIFICATION Spec
CONSTANTS
    p1 = p1
    s1 = s1
    Players = {p1}
    Ships = {s1}
    Squadrons = {}
    Loaders = {l1}
    ShipOf <- MCShipOf
    Nobody = Nobody
    ChanCap = 1
    MaxBatch = 1
    MaxVersion = 2
    MaxStops = 0
INVARIANTS
    TypeOK
    LossAccounted
    DestroyAccounted
