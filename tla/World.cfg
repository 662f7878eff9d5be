SPECIFICATION WorldSpec
CONSTANTS
    Players = {s1, s2, s3}
    Squadrons = {e1, e2}
    Nobody = Nobody
    NoSquadron = NoSquadron
    Ships = {s1, s2, s3}
    PlayerShips = {s1, s2}
    Engagements = {e1, e2}
    Fighters = {f1, f2}
    NoEngagement = NoEngagement
    NoShip = NoShip
    MaxNpcs = 1
    MaxCrashes = 1
    Captains = {s1, s2}
    MissionIds = {e1, e2}
    MaxMissions = 1
    NoCaptain = NoCaptain
    Pilots = {p1}
    Requests = {f1, f2}
    Loop = Loop
    Stations = {naval, port}
    NavalStations = {naval}
    MaxReputation = 3
    NoPilot = NoPilot
    Builders = {s1, s2}
    Houses = {e1, e2}
    NoBuilder = NoBuilder
    NoHouse = NoHouse
    Unknown = Unknown
    NotBuilding = NotBuilding
    Purse = 3
    Duelists = {s1, s2, s3}
    Corps = {e1, e2}
    NoDuelist = NoDuelist
    NoCorps = NoCorps
SYMMETRY Symmetry
INVARIANTS WorldTypeOK RolesWithinMembers ActorsAreListed StatusNamesEngagement BasesHold
PROPERTIES  MissionsStayTaken StationsServe
CHECK_DEADLOCK FALSE
