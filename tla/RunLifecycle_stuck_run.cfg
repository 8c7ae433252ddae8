SPECIFICATION FairSpec
CONSTANTS
    Run = {r1}
    Agent = {a1}
    Thread = {t1}
    None = None
PROPERTIES SilentDeviceRunsEnd
