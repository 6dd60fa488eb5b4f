SPECIFICATION Spec
CONSTANTS
    Users = {u1, u2, u3}
    Passwords = {p1}
    Values = {1, 2}
    Durations = {1}
    MaxAuctions = 1
    DigitBase = 10
    MaxTime = 3
    MaxCrashes = 1
    Lag = 1
    NoUser = NoUser
    NoFile = NoFile
    Blank = Blank
    NoReply = NoReply
SYMMETRY Symmetry
INVARIANTS
    AcceptedBidStands
