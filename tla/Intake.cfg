\* Three requests race on one key, a fourth uses another; the API ends once.
CONSTANTS
    r1 = r1
    r2 = r2
    r3 = r3
    r4 = r4
    k1 = k1
    k2 = k2
    NoRequest = NoRequest
    Requests = {r1, r2, r3, r4}
    Keys = {k1, k2}
    KeyOf <- MCKeyOf
    MaxCrashes = 1
SPECIFICATION FairSpec
INVARIANTS
    OneJobPerKey
    QueuedIsTrue
PROPERTIES
    EveryRequestEnds
    Accepts
\* Every request ends.
CHECK_DEADLOCK FALSE
