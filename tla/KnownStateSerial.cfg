SPECIFICATION Spec
CONSTANTS
    SustainSuccess = 1
    CountCap = 1
    Targets = {t1, t2}
    Outcomes = {"healthy", "failed"}
    Callers = {c1}
    AutoPersist = TRUE
    Faults = TRUE
PROPERTIES ImplementsAtomicBaseline
