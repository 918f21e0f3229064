SPECIFICATION AdmissionSpec
CONSTANTS
    t1 = t1
    t2 = t2
    alice = alice
    bob = bob
    TaskId = {t1, t2}
    User = {alice, bob}
    Nobody = Nobody
    MaxActive = 1
    MaxRecords = 1
    NumCourses = 1
    MaxWrites = 1
    MaxFailures = 0
    MaxRestarts = 1
    MaxLeft = 0
    \* named as the tasks and users are, to be interchangeable as they are
    Client = {t1, t2, alice, bob}
    Thread = {g1, g2}
    Proxy = proxy
    Limit = 1
    Window = 1
    MaxCache = 1
    Interval = 1
    MaxTime = 2
    MaxCalls = 4
SYMMETRY TaskSymmetry
INVARIANTS
    OneWorkerPerUser
    CapacityRespected
    
CHECK_DEADLOCK FALSE
