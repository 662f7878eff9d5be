SPECIFICATION FairSpec
CONSTANTS
    p1 = p1
    s1 = s1
    Players = {p1}
    Ships = {s1}
    Squadrons = {q1}
    Loaders = {l1}
    ShipOf <- MCShipOf
    Nobody = Nobody
    ChanCap = 1
    MaxBatch = 2
    MaxVersion = 1
    MaxStops = 1
PROPERTIES EventuallySettled WritesInOrder
