SPECIFICATION SuspendSpec
CONSTANTS
    Coros = {c1, c2, c3}
    Events = {e1}
    MaxPerTick = 2
    MaxDelay = 2
    Masters = {g1}
    DebugSessions = {d1, d2}
    NoSession = NoSession
    CommandCapacity = 2
    MaxPauses = 2
    Bodies = {b1}
    Minds = {m1}
    BodyOf <- MCBodyOf
    Trees <- MCTrees
    SubtreeNames = {"", "aim", "lost"}
    NoTree = NoTree
    NoMind = NoMind
    MaxClock = 2
INVARIANTS SuspendTypeOK OnePlace TreesResume
PROPERTIES EventuallyRuns 
CHECK_DEADLOCK FALSE
