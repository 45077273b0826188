SPECIFICATION Spec
CONSTANTS
    r1 = r1
    r2 = r2
    Nobody = Nobody
    Requests <- MCTwoRequests
    Kinds = {"threads"}
    MaxConcurrent = 1
    PolicyRules <- MCPolicyRules
    ConsecutiveFailures = 2
    ErrorNum = 1
    ErrorDen = 1
    ErrorRateWindow = 2
    CooldownSeconds = 1
    MaxCooldownSeconds = 1
    MinRate = 1
    AdditiveStep = 1
    SuccessStreak = 1
    Unit = 1
    InitialBurst = 1
    LargestBurst = 1
    DefaultTier = "standard"
    TierRates <- MCTierRates
    TierCeilings <- MCTierCeilings
    LongestRetryAfter = 1
INVARIANTS
    PermitsConserved
PROPERTIES
    OnlyOutdatedLeak
