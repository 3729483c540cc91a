SPECIFICATION Spec
CONSTANTS
    Sessions = {s1, s2}
    Calls = {c1, c2}
    Engines = {e1}
    Nobody = Nobody
    Levels <- MCLevels
    Blank = ""
    Spellings <- MCSpellings
    LocalWarehouse = TRUE
INVARIANTS
    WalkRefusedByOthers
    OutcomesAreTrue
    NamespacesCanBeNamed
SYMMETRY Symmetry
CHECK_DEADLOCK FALSE
