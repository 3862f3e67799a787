\* Promotional messages and one-time passwords to one phone, past the end of
\* an hour and a day.
CONSTANTS
    Workers = {w1, w2}
    Phones = {p1}
    Everybody = Everybody
    Categories = {"promotional", "otp"}
    Length <- MCLength
    TTL <- MCTTL
    Cap <- MCCap
    HourCap = 2
    DayCap = 1
    WeekCap = 2
    Cooldown = 2
    MaxStall = 1
    Horizon = 4
    MaxRuns = 3
SPECIFICATION Spec
SYMMETRY WorkerSymmetry
INVARIANTS
    CapsHold
    OneOtpPerCooldown
PROPERTIES
    AdmittedAtOnce
\* The clock and the number of evaluations are bounded.
CHECK_DEADLOCK FALSE
