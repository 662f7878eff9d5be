SPECIFICATION FairCombat
CONSTANTS
    Ships = {s1, s2}
    PlayerShips = {s1, s2}
    Engagements = {e1}
    Fighters = {f1}
    NoEngagement = NoEngagement
    NoShip = NoShip
    MaxNpcs = 0
    MaxCrashes = 0
PROPERTIES RoundsEnd
CHECK_DEADLOCK FALSE
