SPECIFICATION Spec
CONSTANTS
    Names <- MCNames
    lower <- mc_lower
    Schemas <- MCSchemas
    NoSchema = NoSchema
    NoSelect = NoSelect
    MaxSnapshots = 2
    MaxLog = 4
    MaxTime = 2
    Skews <- MCSkews
INVARIANTS
    ScansPlan
    NamesMeanOneColumn
    NoVariableShadowsAColumn
    EmptyReadsAlike
    AsOfIsHistory
    AsOfMovesForward
