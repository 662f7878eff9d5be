SPECIFICATION ToolsSpec
CONSTANTS
    Players = {x1, x2}
    Playtests = {t1, t2}
    NoPlaytest = NoPlaytest
    Offline = Offline
    MaxInstances = 1
    MaxParticipants = 2
    OldShips = {o1}
    NewShips = {n1}
    Sectors = {a, b}
    NoSector = NoSector
    Gone = Gone
    MaxStaged = 1
    ViewPlayers = {p1, p2}
    Terminals = {p1}
    ViewNpcs = {v1}
    ViewSectors = {x1, x2}
    NoWhere = NoWhere
    MaxMoves = 1
    MaxQueue = 1
    Sockets = {w1, w2, w3}
    MaxAttempts = 2
    MaxTimers = 5
    Edits = {k1, k2}
    NoEdit = NoEdit
    MaxCommits = 2
    PanelSessions = {d1, d2}
    Breaks = {b1}
    NoPanelSession = NoPanelSession
    MaxWire = 2
    MaxStops = 1
    Kinds = {k1, k2}
    ShipKind = k1
    Archetypes = {x1, x2}
    NothingYet = NothingYet
    Whole = Whole
    MaxPage = 1
    MaxPending = 2
    Paths = {x1, x2}
    Texts = {c1, c2}
    EmptyText = EmptyText
    NoPath = NoPath
    NoText = NoText
    MaxCalls = 2
    Cards = {x1, x2}
    NoChoice = NoChoice
    Silence = Silence
    MaxAsked = 2
INVARIANTS    ClientShowsSector NeverStuck EditorShowsServer AnsweredOnce
SYMMETRY Symmetry
CHECK_DEADLOCK FALSE
