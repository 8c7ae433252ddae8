SPECIFICATION Spec
CONSTANTS
    Plan = {p1}
    CronPlan = {}
    Run = {r1, r2}
    Agent = {a1}
    Thread = {t1}
    None = None
    Interval = 1
    Expiry = 1
    MaxTime = 2
SYMMETRY Symmetry
INVARIANTS TypeOK ScanRunsDoNotOverlap
PROPERTIES NoCatchUp
CHECK_DEADLOCK FALSE
