SPECIFICATION SessionSpec
CONSTANTS
    Users = {u1}
    Passwords = {p1, p2}
    Values = {1}
    Durations = {1}
    MaxAuctions = 1
    DigitBase = 10
    MaxTime = 1
    MaxCrashes = 2
    Lag = 0
    NoUser = NoUser
    NoFile = NoFile
    Blank = Blank
    NoReply = NoReply
    Clients = {c1, c2}
    MaxRequests = 2
    InOrder = TRUE
    Idle = Idle
    LoggedOut = LoggedOut
INVARIANTS
    SessionTypeOK
    LoggedInHasPassword
    AnswersStayTrue
