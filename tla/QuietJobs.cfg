\* A promotional job beside a transactional one, a request or a crash, three
\* hours (see MCQuietJobs).
CONSTANTS
    c1 = c1
    j1 = j1
    t1 = t1
    m1 = m1
    w1 = w1
    NoCampaign = NoCampaign
    NoJob = NoJob
    Jobs = {j1, t1}
    Campaigns = {c1}
    Messages = {m1}
    CampaignOf <- MCCampaignOf
    MessageOf <- MCMessageOf
    CategoryOf <- MCCategoryOf
    Windows <- MCWindows
    Horizon = 2
    Workers = {w1}
    RetryMax = 2
    BatchSize = 1
    MaxQueue = 1
    MaxOps = 1
    MaxCrashes = 1
SPECIFICATION QFairSpec
CONSTRAINT OneDisturbance
INVARIANTS
    TypeOK
    SentIsRecorded
    QueuedJobIsCarried
    RetryAtIsNextAllowed
    GivenUpAfterBudget
PROPERTIES
    RetriesCountUp
    QuietHoursKept
    QueuedJobIsTakenUp
