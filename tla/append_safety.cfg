SPECIFICATION Spec
CONSTANTS
    Sessions = {s1, s2}
    Appends = {a1, a2}
    Others = {e1, e2}
    CatalogKind = "glue"
    MaxSlices = 2
    MaxRetries = 2
    Nobody = Nobody
SYMMETRY Symmetry
INVARIANTS
    HandlesAreHistory
    CommittedFilesComplete
    RefusedLeavesNothing
    WarnedIffNothingCommitted
    ConflictsHaveACause
    NoRowsTwice
    ReportsAreTrue
PROPERTIES
    HandleNeverGoesBack
    ImplementsAppendLog
