SPECIFICATION FairSpec
CONSTANTS
    TaskId = {t1, t2}
    Request = {r1, r2}
    MaxVideos = 2
    None = None
INVARIANTS
    OthersCancelled
    HonestCompletion
PROPERTIES
    NothingAfterCancel
    CancelEndsThread
CHECK_DEADLOCK FALSE
