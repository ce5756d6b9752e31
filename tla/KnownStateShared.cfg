SPECIFICATION Spec
CONSTANTS
    SustainSuccess = 2
    CountCap = 2
    Targets = {t1}
    Outcomes = {"healthy", "failed", "unknown"}
    Callers = {c1, c2}
    AutoPersist = TRUE
    Faults = FALSE
INVARIANTS RecordsConsistent
PROPERTIES BaselineSticks
