SPECIFICATION FairSpec
CONSTANTS
    Coros = {c1, c2, c3}
    Events = {e1}
    MaxPerTick = 2
    MaxDelay = 2
PROPERTIES
    TicksEnd
CHECK_DEADLOCK FALSE
