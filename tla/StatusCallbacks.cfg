\* A message under way and one sent through Twilio before, two reports each.
CONSTANTS
    Attempts = {a1, a2}
    Providers = {"plivo", "telnyx", "local_mock"}
    Earlier = {a2}
    MaxReports = 2
    MaxFaults = 2
    MaxSwitches = 1
SPECIFICATION FairSpec
INVARIANTS
    TypeOK
    StatusWasReported
    AnsweredIsApplied
PROPERTIES
    StatusMovesForward
    FinalStatusRecorded
CHECK_DEADLOCK FALSE
