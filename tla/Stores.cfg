SPECIFICATION StoresSpec
CONSTANTS
    Thread = {a, b, c}
    MaxMutations = 5
    Upsert = {p1, p2}
    Entry = {1, 2}
    Look = {k}
    SqliteUpsert = {p1}
    Close = {z}
    Keep = 1
    MaxConn = 2
    NoRow = NoRow
    Nobody = Nobody
INVARIANT
    StoresSafe
PROPERTIES
    EverySnapshotTried
    KeepsPromise
    StoresKeepRows
    StoreCallsEnd
CHECK_DEADLOCK FALSE
