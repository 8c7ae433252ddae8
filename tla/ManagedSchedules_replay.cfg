SPECIFICATION Spec
CONSTANTS
    Plan = {p1}
    CronPlan = {}
    Run = {r1, r2}
    Agent = {a1}
    Thread = {t1}
    None = None
    Interval = 2
    Expiry = 2
    MaxTime = 3
SYMMETRY Symmetry
INVARIANTS FailedOccurrenceNotRerun
CHECK_DEADLOCK FALSE
