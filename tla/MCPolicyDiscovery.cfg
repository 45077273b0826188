SPECIFICATION Spec
CONSTANTS
    r1 = r1
    r2 = r2
    p1 = p1
    p2 = p2
    CrawlDelay = CrawlDelay
    None = None
    Nobody = Nobody
    Requests <- MCRequests
    Policies <- MCPolicies
    Kinds = {"sync", "async", "browser"}
    Ttl = 2
    MaxLag = 1
    SteadyBound = 5
SYMMETRY MCSymmetry
INVARIANTS
    TypeOK
PROPERTIES
    SupersededAgesOut
    RobotsObeyed
