SPECIFICATION Spec
CONSTANTS
    a = a
    b = b
    Ids = {a}
    SustainSuccess = 1
    CountCap = 1
    OutageThreshold = 1
    Aggressive = FALSE
    KnownStateEnabled = TRUE
    Restored <- Fresh
    Configs <- OneTarget
    ProbeResults <- UpDown
    SafetyResults = {}
    Retries = 0
    MaxReloads = 0
PROPERTIES RegressionAlerted
CHECK_DEADLOCK FALSE
