SPECIFICATION Spec
CONSTANTS
    a = a
    b = b
    Calls = {a, b}
    Streamed = {a}
    Settings <- MCSettings
    MaxRetries = 1
    Length = 2
    Backlog = 1
    MaxKills = 1
    MaxProbes = 1
INVARIANTS
    AnswerWhole
    UnharmedCompletes
PROPERTIES
    CallsEnd
CHECK_DEADLOCK FALSE
