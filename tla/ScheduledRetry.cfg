\* What the alert of a throttled transactional job promises.
CONSTANTS
    c1 = c1
    j1 = j1
    t1 = t1
    m1 = m1
    w1 = w1
    w2 = w2
    NoCampaign = NoCampaign
    NoJob = NoJob
    Jobs <- TransactionalJobs
    Campaigns = {c1}
    Messages = {m1}
    CampaignOf <- MCCampaignOf
    MessageOf <- OneMessage
    Workers = {w1}
    RetryMax = 2
    BatchSize = 1
    MaxQueue = 1
    MaxOps = 0
    MaxCrashes = 0
SPECIFICATION FairSpec
PROPERTIES
    ScheduledRetryHappens
