SPECIFICATION Spec
CONSTANTS
    c1 = c1
    c2 = c2
    Calls = {c1, c2}
    DeviceTypes <- ThreeDevices
    Models <- AllModels
    Invocations <- AllInvocations
    NoCall = NoCall
INVARIANTS
    TypeOK
    NotificationDiscipline
    PreparedFromOwnModel
    SupportAgrees
    FailuresContained
PROPERTIES
    EveryPreparationEnds
