\* What the alert of a job that failed permanently promises, with nobody but
\* the scheduler, the worker and the provider.
CONSTANTS
    c1 = c1
    j1 = j1
    t1 = t1
    m1 = m1
    w1 = w1
    w2 = w2
    NoCampaign = NoCampaign
    NoJob = NoJob
    Jobs <- OneJob
    Campaigns = {c1}
    Messages = {m1}
    CampaignOf <- MCCampaignOf
    MessageOf <- OneMessage
    Workers = {w1}
    RetryMax = 2
    BatchSize = 1
    MaxQueue = 2
    MaxOps = 0
    MaxCrashes = 0
SPECIFICATION Spec
ACTION_CONSTRAINT PolicyAllows
INVARIANTS
    RejectedJobIsNotSent
