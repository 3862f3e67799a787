\* Failures, successes and an unlock command on one account, from two addresses.
CONSTANTS
    Addresses = {a1, a2}
    Users = {u1}
    MaxAttempts = 3
    Window = 2
    MaxFails = 3
    LockTime = 2
SPECIFICATION FairSpec
INVARIANTS
    LockedAfterFailures
    LockIsTimed
PROPERTIES
    LockLifts
