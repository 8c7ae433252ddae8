SPECIFICATION PartsSpec
CONSTANTS
    Run = {r1}
    Agent = {a1}
    Thread = {t1}
    None = None
    Handler = {h1, h2}
PROPERTIES SilentDeviceGoesOffline PausedCaptureIsCleared
