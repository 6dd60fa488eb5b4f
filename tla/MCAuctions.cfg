SPECIFICATION Spec
CONSTANTS
    Users = {u1}
    Passwords = {p1}
    Values = {1}
    Durations = {0, 1}
    MaxAuctions = 2
    DigitBase = 2
    MaxTime = 4
    MaxCrashes = 1
    Lag = 1
    NoUser = NoUser
    NoFile = NoFile
    Blank = Blank
    NoReply = NoReply
INVARIANTS
    AidsContiguous
    EndRecordAgrees
