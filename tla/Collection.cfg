SPECIFICATION Spec
CONSTANTS
    h = h
    b = b
    j = j
    p1 = p1
    p2 = p2
    p3 = p3
    p4 = p4
    Pages = {p1, p2, p3, p4}
    Sources = {h, b, j}
    SourceOf <- MCSourceOf
    Listing <- MCListing
    Baseline = {p3}
    None = None
    Grade <- MCGrade
    StageLimit <- MCStageLimit
    Style <- MCStyle
    Round2Sources = {h, b}
    Family <- MCFamily
    Body <- MCBody
    Share <- MCShare
    MaxRuns = 2
    MaxTroubles = 1
    MaxRequests = 6
    MaxRetries = 1
    MaxExact = 2
    MaxAccepted = 3
    PerSource = 1
    Target = 3
    Round2Target = 2
    Checkpoints = {1}
    SourceCeiling = 3
    SourceTarget = 2
    QueueSize = 1
    MaxWorkers = 2
INVARIANTS
    RowsMatchEvidence
    
    PublisherShare
    NothingForgotten
PROPERTIES
    ImplementsLedger
    CommandsEnd
CHECK_DEADLOCK FALSE
