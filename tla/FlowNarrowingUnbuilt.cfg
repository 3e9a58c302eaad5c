SPECIFICATION Spec
CONSTANTS
    AnyType = AnyType
    Values <- MCValues
    Symbols <- MCSymbols
    Declared <- MCDeclared
    Late = {"x"}
    Units <- MCUnits
    Families = {"unbuilt"}
    Atoms = {1, 2, 5}
    Conds = {1}
INVARIANTS
    Sound
