\* Two workers on a campaign job and a transactional one with the same text; a
\* pause, generation or other request, or a crash (see MCMessageJobs).
CONSTANTS
    c1 = c1
    j1 = j1
    t1 = t1
    m1 = m1
    w1 = w1
    w2 = w2
    NoCampaign = NoCampaign
    NoJob = NoJob
    Jobs = {j1, t1}
    Campaigns = {c1}
    Messages = {m1}
    CampaignOf <- MCCampaignOf
    MessageOf <- OneMessage
    Workers = {w1, w2}
    RetryMax = 2
    BatchSize = 1
    MaxQueue = 2
    MaxOps = 1
    MaxCrashes = 1
SPECIFICATION Spec
SYMMETRY SymmetricWorkers
CONSTRAINTS
    OneInterruption
    TwoJobsUndisturbed
    FirstTriesRace
INVARIANTS
    AtMostOneDeliveryPerWindow
    PauseStopsCampaign
    HistoryKeepsItsJob
