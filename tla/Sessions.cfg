\* Logins, refreshes, password changes and a deactivation among failing
\* commits; it stops when the jtis are used up.
CONSTANTS
    Users = {u1}
    Jtis = {j1, j2, j3, j4, j5}
    SessionLookup = TRUE
    AccessLife = 1
    RefreshLife = 2
    MaxChanges = 2
    MaxFailures = 2
SPECIFICATION Spec
INVARIANTS
    OneLateHandOut
    SessionsAreAudited
    OldSessionsEnd
SYMMETRY Symmetry
CHECK_DEADLOCK FALSE
