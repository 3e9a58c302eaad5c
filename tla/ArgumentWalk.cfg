SPECIFICATION Spec
CONSTANTS
    Programs <- MCPrograms
    Slots = {"x", "y", "z", "r", "v"}
    FlowNodes = {1}
    SlotBudget = 3
    BucketBudget = 2
    Assignable <- MCAssignable
    Infer <- MCInfer
    Instantiate <- MCInstantiate
INVARIANTS
    TypeOK
    Transparent
    ReportedOnce
    LogReproduces
    ReadsAccounted
PROPERTIES
    EveryCallChecked
    ArrowReplaysNothing
CHECK_DEADLOCK FALSE
