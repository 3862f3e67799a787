\* The counter goes between GET and INCR.
CONSTANTS
    Addresses = {a1}
    Users = {u1}
    MaxAttempts = 2
    Window = 2
    MaxFails = 2
    LockTime = 2
SPECIFICATION FairSpec
PROPERTIES
    LimitEnds
