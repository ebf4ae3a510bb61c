CONSTANTS
    Width = 8
    Asked <- SomeCalls
SPECIFICATION Spec
INVARIANTS
    ShapesAsAsked
    PaddingAsAsked
    MaskAsAsked
    HalvesAreNearest
    HalvesRoundTrip
\* A call ends.
CHECK_DEADLOCK FALSE
