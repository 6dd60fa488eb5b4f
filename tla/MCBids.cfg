SPECIFICATION Spec
CONSTANTS
    Users = {u1, u2}
    Passwords = {p1}
    Values = {0, 1, 2}
    Durations = {1}
    MaxAuctions = 1
    DigitBase = 10
    MaxTime = 4
    MaxCrashes = 1
    Lag = 1
    NoUser = NoUser
    NoFile = NoFile
    Blank = Blank
    NoReply = NoReply
SYMMETRY Symmetry
INVARIANTS
    TypeOK
    AnnouncedAuctionStands
    BidsAreLegal
    NoBidAfterEnd
    CurrentBidIsHighest
PROPERTIES
    ClosedIsFinal
    ImplementsHouse
