SPECIFICATION Spec
CONSTANTS
    e1 = e1
    e2 = e2
    Executions = {e1, e2}
    Models <- OmittedModels
    Null = Null
    Empty = Empty
    Unnamed = Unnamed
INVARIANTS
    OmittedInputsHaveNoValue
