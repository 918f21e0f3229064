SPECIFICATION Spec
CONSTANTS
    Worker = {w1, w2}
    NumTasks = 2
    MaxTries = 2
    NotOpenAction = "continue"
    None = None
INVARIANT EveryChapterAccounted
