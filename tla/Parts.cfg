SPECIFICATION PartSpec
CONSTANTS
    Request = {r1, r2, r3}
    Name = {alice, bob}
    MaxRetries = 1
    None = None
    Process = {p1, p2}
    Healer = {h}
    Tenant = {t}
    Task = {s1, s2}
    User = {u}
    Account = {a1, a2}
    MaxActive = 1
    Writer = {w1, w2}
    Reader = {l1, l2}
    Keep = 3
    LastRecord = 4
    Folder = {main, extra}
    Main = main
    Course = {c1, c2}
    Activity = {plain, photo, code, odd}
    Photo = {photo}
    Coded = {code}
    Unknown = {odd}
    Nowhere = Nowhere
    Job = {video, document, live}
    Stoppable = {video, live}
    Video = {video}
    MaxThreads = 2
    MaxTime = 3
    MaxForbidden = 2
    MaxSaturated = 3
    MaxMinutes = 3
    Question = {q1, q2, q3, q4}
    Completion = {q4}
    Workers = 2
    NeedPercent = 50
    Attempts = 2
    Thread = {j1, j2}
    Title = {title}
    NumTokens = 2
    Key = {k}
    MaxBalance = 1
    RefreshEvery = 2
    Permits = 1
    MaxTries = 2
    MaxLogins = 2
    MaxTasks = 2
    Call = {m1, m2}
INVARIANTS
    RegistrationSound
    SchemaSound
    
    ChapterSound
    MediaSound
    QuizSound
    
    FeedSound
CHECK_DEADLOCK FALSE
