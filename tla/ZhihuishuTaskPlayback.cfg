SPECIFICATION Spec
CONSTANTS
    TaskId = {t1, t2}
    Request = {r1}
    MaxVideos = 1
    None = None
INVARIANTS
    CancelReachesPlayback
CHECK_DEADLOCK FALSE
