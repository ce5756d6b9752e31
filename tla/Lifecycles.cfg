SPECIFICATION AllSpec
CONSTANTS
    a = a
    b = b
    Ids = {a, b}
    SustainSuccess = 1
    CountCap = 1
    OutageThreshold = 1
    Aggressive = FALSE
    KnownStateEnabled = FALSE
    Restored <- Fresh
    Configs <- Shared
    ProbeResults <- Down
    SafetyResults = {}
    Retries = 0
    MaxReloads = 1
    TargetIDs = {a, b}
    TargetSets <- Sets
    States = {"healthy"}
    Reloaders = {r1, r2}
    Callers = {c1, c2}
    MaxStarts = 2
    Controllers = {c1, c2}
    Plan = {"lock", "stop", "start", "verify"}
    HasHook = TRUE
    Runtimes = {r1, r2}
    Foreground = {r1}
    MethodCount = 3
INVARIANTS NoOrphanRows DoneMeansQuiet
PROPERTIES
    EngineProgress ViewFollows ShutdownReturns UpdateHonest RuntimeEnds
    ProbeEnds
CHECK_DEADLOCK FALSE
