SPECIFICATION Spec
CONSTANTS
    e1 = e1
    e2 = e2
    Execs = {e1, e2}
    NumInputs = 2
    NumOutputs = 2
    NamedInputs = {1, 2}
    NamedOutputs = {1, 2}
    MaxPools = 2
    Requests <- OnePoolOnly
    FenceLists <- NoFences
    Serial = TRUE
    InferMayTimeOut = FALSE
    ReleaseEarly = TRUE
    Absent = Absent
    Unmapped = Unmapped
    NoExec = NoExec
    Mixed = Mixed
    Kept = Kept
INVARIANTS
    DetachedThreadOutlivedByModel
