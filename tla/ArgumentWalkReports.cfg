SPECIFICATION Spec
CONSTANTS
    Programs <- MisreportedPrograms
    Slots = {"x", "y", "z", "r", "v"}
    FlowNodes = {1}
    SlotBudget = 3
    BucketBudget = 2
    Assignable <- MCAssignable
    Infer <- MCInfer
    Instantiate <- MCInstantiate
INVARIANT ReportedOnce
CHECK_DEADLOCK FALSE
