SPECIFICATION Spec
CONSTANTS
    c1 = c1
    c2 = c2
    Calls = {c1, c2}
    DeviceTypes <- CpuOnly
    Models <- AllModels
    Invocations <- TwoModels
    NoCall = NoCall
INVARIANTS
    ConstLengthMatches
