SPECIFICATION UpgradeOpsSpec
CONSTANTS
    Stored = {s1}
INVARIANTS RestoreBringsBackBackup
