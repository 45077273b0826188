SPECIFICATION Spec
CONSTANTS
    a = a
    b = b
    c = c
    r1 = r1
    r2 = r2
    Nothing = Nothing
    Hosts <- MCHosts
    Requests <- MCRequests
    Documents <- MCPlainDocuments
    SampleDocuments <- MCSampleDocuments
    AgentName = "agent"
    VerifiedIdentity = "id"
    MaxTracked = 2
    TierRates <- MCTierRates
    TierCeilings <- MCTierCeilings
    DefaultTier = "standard"
    InitialMaxRate = 2
    InitialBurst = 1
    LargestBurst = 1
    LongestRetryAfter <- MCLongestRetryAfter
    MinRate = 1
    AdditiveStep = 1
    SuccessStreak = 1
    Unit = 1
    Days = 2
    DayLength = 2
    MultiplierUnit = 2

INVARIANTS
    NeverAboveDeclared
