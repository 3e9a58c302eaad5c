SPECIFICATION FairSpec
CONSTANTS
    AnyType = AnyType
    Values <- MCValues
    Symbols <- MCSymbols
    Declared <- MCDeclared
    Late = {"x"}
    Units <- MCUnits
    Families = {"loop", "nested", "twice", "label", "switch", "default", "missing", "branch", "logic"}
    Atoms = {1, 2, 5, 6, 7}
    Conds = {5, 6}
INVARIANTS
    TypeOK
    Sound
    Exact
    LoopsInFlight
PROPERTIES
    EveryReferenceResolved
