SPECIFICATION Spec
CONSTANTS
    Squadrons = {q1, q2, q3}
    Sectors = {s1}
    None = None
    Presence = {45}
    MaxProposals = 1
INVARIANTS
    TypeOK
    ControllerPatrols
    NeverAllyAndEnemy
PROPERTIES
    
    OrphanForever
CHECK_DEADLOCK FALSE
