SPECIFICATION Spec
CONSTANTS
    a = a
    b = b
    Ids = {a, b}
    SustainSuccess = 1
    CountCap = 1
    OutageThreshold = 1
    Aggressive = FALSE
    KnownStateEnabled = TRUE
    Restored <- Fresh
    Configs <- Reconfigurations
    ProbeResults <- Down
    SafetyResults = {}
    Retries = 0
    MaxReloads = 2
INVARIANTS LoopsSafe
PROPERTIES ImplementsEngineView
CHECK_DEADLOCK FALSE
