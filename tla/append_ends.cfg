SPECIFICATION FairSpec
CONSTANTS
    Sessions = {s1, s2}
    Appends = {a1, a2}
    Others = {e1}
    CatalogKind = "rest"
    MaxSlices = 1
    MaxRetries = 1
    Nobody = Nobody
PROPERTIES
    EveryCallEnds
