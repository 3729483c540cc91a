SPECIFICATION Spec
CONSTANTS
    Sessions = {s1}
    Appends = {a1}
    Others = {}
    CatalogKind = "rest"
    MaxSlices = 1
    MaxRetries = 0
    Nobody = Nobody
INVARIANTS
    FailedAppendDidNothing
