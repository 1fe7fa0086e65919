SPECIFICATION Spec
CONSTANTS
    d1 = d1
    d2 = d2
    Order <- MCOrder
    Texts = {t1, t2}
    None = None
    Torn = Torn
    MaxCommands = 5
    MaxKills = 1
    MaxEdits = 1
    MaxAsks = 1
SYMMETRY Passages
INVARIANTS
    ReviewedText
    PreparedLoads
    TombstonesRemember

    
CHECK_DEADLOCK FALSE
