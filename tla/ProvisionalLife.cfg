SPECIFICATION Spec
CONSTANTS
    d1 = d1
    d2 = d2
    Order <- MCOrder
    Texts = {t1, t2}
    None = None
    Torn = Torn
    MaxCommands = 3
    MaxIncidents = 1
    MaxStarts = 1
    MaxAsks = 1
SYMMETRY Pages
INVARIANTS
    WithdrawnLeftChunks
    CollectRepairs
    ReprocessRepairs

    
CHECK_DEADLOCK FALSE
