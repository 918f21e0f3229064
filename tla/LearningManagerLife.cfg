SPECIFICATION FairSpec
CONSTANTS
    t1 = t1
    t2 = t2
    alice = alice
    bob = bob
    TaskId = {t1}
    User = {alice}
    Nobody = Nobody
    MaxActive = 1
    MaxRecords = 1
    NumCourses = 2
    MaxWrites = 3
    MaxFailures = 1
    MaxRestarts = 1
    MaxLeft = 1
INVARIANTS
    
    ActiveHasWorker
    StoreCatchesUp
PROPERTIES
    
    
    StopEndsWork
CHECK_DEADLOCK FALSE
