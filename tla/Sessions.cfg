SPECIFICATION Spec
CONSTANTS
    Players = {p1, p2}
    Conns = {c1, c2}
    Sectors = {s1, s2}
    NoPlayer = NoPlayer
    NoConn = NoConn
    NoSector = NoSector
    Home <- OneHome
SYMMETRY Symmetry
INVARIANTS
    TypeOK
    GoneOwnsNothing
PROPERTIES
    KeepsItsConnection
