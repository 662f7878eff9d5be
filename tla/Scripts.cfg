SPECIFICATION ScriptsSpec
CONSTANTS
    Spaces = {ns1}
    Names = {x1, x2}
    Values = {v1, v2}
    Checkpoints = {cp1}
    NoValue = NoValue
    Torn = Torn
    NoCheckpoint = NoCheckpoint
    Runners = {x1, x2}
    Targets = {t1}
    MaxHull = 1
    MaxChanges = 2
    MaxDepth = 2
    NoHull = NoHull
    Hosts = {x1, x2}
    Subscriptions = {s1, s2}
    NoHost = NoHost
    Files = {x1, x2}
    Actions = {a1}
    Tasks = {gm}
    Watcher = watcher
    Hangup = hangup
    NoFile = NoFile
    MaxEdits = 1
    Locals = {x1, x2}
    NoName = NoName
    MaxStatements = 4
    MaxBlocks = 3
    Subscribers = {x1, x2}
    Verbs = {w1}
    Areas = {Home, a2}
    Home = Home
    Anywhere = Anywhere
    MaxQueued = 1
    Vessels = {x1, x2}
    Zones = {z1, z2}
    Nowhere = Nowhere
    FullHull = 1
    MaxTodo = 2
    WatchIds = {g1}
    Checkers = {x1, x2}
    NotSeen = NotSeen
    MaxValue = 2
    MaxResumes = 1
    Missions = {m1}
    Optional = {"on_tick"}
    Loaders = {x1, x2}
    NoScript = NoScript
    Unparsable = Unparsable
    NoLoad = NoLoad
    MaxWrites = 2
    ActionFiles = {x1, x2}
    Handlers = {h1, h2}
    ActionNames = {a1}
    Unserved = Unserved
    MaxLines = 4
    Shelves = {k1, k2}
    Archetypes = {i1, i2}
    Stockers = {x1, x2}
    NoStocker = NoStocker
    NoEntry = NoEntry
    MaxTexts = 2
SYMMETRY Symmetry
INVARIANTS ScriptsTypeOK TransactionsHold SubscriptionsKept   
PROPERTIES StoreKeeps
CHECK_DEADLOCK FALSE
