SPECIFICATION Spec
CONSTANTS
    Programs <- NarrowedPrograms
    Slots = {"x", "y", "z", "r", "v"}
    FlowNodes = {1}
    SlotBudget = 3
    BucketBudget = 2
    Assignable <- MCAssignable
    Infer <- MCInfer
    Instantiate <- MCInstantiate
INVARIANT Transparent
CHECK_DEADLOCK FALSE
