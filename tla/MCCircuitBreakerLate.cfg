SPECIFICATION Spec
CONSTANTS
    c1 = c1
    c2 = c2
    c3 = c3
    Callers <- MCCallers
    ConsecutiveFailures = 2
    ErrorNum = 2
    ErrorDen = 3
    ErrorRateWindow = 3
    CooldownSeconds = 1
    MaxCooldownSeconds = 3
    DoublingBound = 2
PROPERTIES
    OnlyProbesDecide
