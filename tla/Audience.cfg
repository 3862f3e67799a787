\* One worker (see MCAudience), two runs, two replies, one delivery that is misread or
\* whose answer is lost, two requests.
CONSTANTS
    p1 = p1
    p2 = p2
    m1 = m1
    m2 = m2
    s1 = s1
    c1 = c1
    Phones = {p1, p2}
    Workers = {w1}
    Replies = {m1, m2}
    SenderOf <- MCSenderOf
    IntentOf <- MCIntentOf
    Anonymous = {m2}
    Segments = {s1}
    NoSegment = NoSegment
    NoCampaign = NoCampaign
    Campaigns = {c1}
    Matching <- MCMatching
    RequiresConsent = {s1}
    SegmentOf <- MCSegmentOf
    CategoryOf <- MCCategoryOf
    MaxRuns = 2
    MaxLosses = 1
    MaxRequests = 2
SPECIFICATION AFairSpec
INVARIANTS
    OneLateMessagePerWorker
    StopIsKept
    AudienceIsOneGeneration
    CampaignReachesConsented
PROPERTIES
    StopTakesEffect
