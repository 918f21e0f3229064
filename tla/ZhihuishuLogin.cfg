SPECIFICATION FairSpec
CONSTANTS
    Session = {s1, s2}
    Password = {p1}
    MaxCodes = 2
    None = None
PROPERTIES
    NewestLoginWins
    LoginKept
    WithdrawnEnds
    SessionsExpire
CHECK_DEADLOCK FALSE
