SPECIFICATION Spec
CONSTANTS
    a = a
    b = b
    Ids = {a}
    SustainSuccess = 2
    CountCap = 3
    OutageThreshold = 3
    Aggressive = TRUE
    KnownStateEnabled = TRUE
    Restored <- FreshOrKnown
    Configs <- OneTarget
    ProbeResults <- AllResults
    SafetyResults <- Blocking
    Retries = 1
    MaxReloads = 1
PROPERTIES AlertsMatchBaseline
CHECK_DEADLOCK FALSE
