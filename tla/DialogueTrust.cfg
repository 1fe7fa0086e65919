SPECIFICATION Spec
CONSTANTS
    Names <- MCNames
    Places <- MCPlaces
    People <- MCPeople
    Events <- MCEvents
    Short <- MCShort
    Noise <- MCNoise
    Periods <- MCPeriods
    Rival <- MCRival
    Records <- MCRecords
    Future <- MCFuture
    PerDocument = 1
    TopK = 3
    Room = 5
    TurnCost = 1
    MaxItems = 2
    Asked <- MCPremises
    Streamed = {}
    Numbered = {"march"}
    Withdrawable = {1}
INVARIANT
    NotInherited
CHECK_DEADLOCK FALSE
