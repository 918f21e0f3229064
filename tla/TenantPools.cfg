SPECIFICATION Spec
CONSTANTS
    Session = {s1, s2, s3}
    Tenant = {x, y, z}
    Pool = {p1, p2, p3, p4}
    MaxPools = 2
    None = None
SYMMETRY PoolSymmetry
INVARIANTS
    RefsExact
    NeverClosedInUse
    ReturnedHome
PROPERTY
    OverflowOnlyWhenBusy
CHECK_DEADLOCK FALSE
