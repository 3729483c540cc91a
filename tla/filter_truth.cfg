SPECIFICATION MCSpec
CONSTANTS
    Columns = {"x", "p", "s"}
    Type <- MCType
    Values <- MCValues
    MaxDepth = 2
INVARIANTS
    HalvesAreExact
    ScanKeepsTrueRows
    RuledOutIsNoMatch
    PlanIsComplete
CHECK_DEADLOCK FALSE
