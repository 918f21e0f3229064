SPECIFICATION Spec
CONSTANTS
    Request = {r1, r2}
    Name = {alice}
    MaxRetries = 0
    None = None
INVARIANT AccountHasDatabase
CHECK_DEADLOCK FALSE
