SPECIFICATION Spec
CONSTANTS
    Users = {u1}
    Passwords = {p1}
    Values = {1}
    Durations = {1}
    MaxAuctions = 1
    DigitBase = 10
    MaxTime = 4
    MaxCrashes = 0
    Lag = 0
    NoUser = NoUser
    NoFile = NoFile
    Blank = Blank
    NoReply = NoReply
PROPERTIES
    EndRecordIsFinal
