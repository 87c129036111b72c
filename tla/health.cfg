SPECIFICATION FairSpec
CONSTANTS
    t1 = t1
    t2 = t2
    t3 = t3
    Providers = {openai}
    Workers <- MCWorkers
    Ttl = 1
    Slow = 1
    Admins <- MCAdmins
    Posted = {"up", "degraded", "broken"}
INVARIANTS
    TypeOK
    BoundedStaleness
PROPERTIES
    Converges
    OutageIsObeyed
