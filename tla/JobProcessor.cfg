SPECIFICATION FairSpec
CONSTANTS
    Worker = {w1, w2}
    NumTasks = 2
    MaxTries = 3
    NotOpenAction = "retry"
    None = None
INVARIANTS
    CountersExact
    OnePlace
    NothingLostWhileRunning
    GivenUpForGood
    QuietAfterReturn
PROPERTY
    Termination
