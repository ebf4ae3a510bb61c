CONSTANTS
    NumThreads = 2
    NumCalls = 4
SPECIFICATION Spec
INVARIANTS
    TypeOK
    OrderedCallsNeverStick
PROPERTIES
    OrderedCallsAreServed
    IndependentCallsAreServed
\* Calls may wait for fences that never signal.
CHECK_DEADLOCK FALSE
