SPECIFICATION FairUneditedSpec
CONSTANTS
    Plan = {p1, p2}
    CronPlan = {}
    Run = {r1}
    Agent = {a1}
    Thread = {t1}
    None = None
    Interval = 2
    Expiry = 2
    MaxTime = 3

PROPERTIES DueOccurrenceAccounted
CHECK_DEADLOCK FALSE
