\* Models of one or two operations, of all kinds.
CONSTANTS
    s1 = s1
    s2 = s2
    Real = Real
    Wrong = Wrong
    Null = Null
    Scales <- AllScales
    Models <- AllModels
SPECIFICATION Spec
INVARIANTS
    TypeOK
    NodesFitOperands
    AxesAgree
    
