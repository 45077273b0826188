SPECIFICATION Spec
CONSTANTS
    s1 = s1
    s2 = s2
    NoPolicy = NoPolicy
    Senders <- MCSenders
    TierLimits <- MCTierLimits
    Rules <- MCRules
    Lanes = 2
    Spare = 1
    MinRate = 2
    AdditiveStep = 1
    SuccessStreak = 2
    Unit = 4
    Burst = 1
    LargestBurst = 2
    CleanBound = 5
INVARIANTS
    TypeOK
    RateInRange
    RecoveryEnvelope
    Paced
PROPERTIES
    Converges
