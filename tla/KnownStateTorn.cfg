SPECIFICATION Spec
CONSTANTS
    SustainSuccess = 1
    CountCap = 1
    Targets = {t1}
    Outcomes = {"healthy", "failed"}
    Callers = {c1, c2}
    AutoPersist = TRUE
    Faults = FALSE
INVARIANT PathWhole
