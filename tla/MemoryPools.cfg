SPECIFICATION Spec
CONSTANTS
    m1 = m1
    m2 = m2
    p1 = p1
    p2 = p2
    p3 = p3
    Models = {m1, m2}
    Pages = {p1, p2, p3}
    ModelPools <- SomeModelPools
    RequestPools <- SomeRequestPools
    MaxExecutions = 2
    Overlap = TRUE
    NoModel = NoModel
    Null = Null
    MapFailed = MapFailed
    Free = Free
SYMMETRY PageSymmetry
INVARIANTS
    TypeOK
    AshmemReleased
    HeldUnmapped
PROPERTIES
    PointersKept
