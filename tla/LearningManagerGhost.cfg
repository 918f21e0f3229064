SPECIFICATION FairSpec
CONSTANTS
    t1 = t1
    t2 = t2
    alice = alice
    bob = bob
    TaskId = {t1}
    User = {alice}
    Nobody = Nobody
    MaxActive = 1
    MaxRecords = 1
    NumCourses = 1
    MaxWrites = 2
    MaxFailures = 0
    MaxRestarts = 0
    MaxLeft = 1
PROPERTY
    CancelIsCompleted
CHECK_DEADLOCK FALSE
