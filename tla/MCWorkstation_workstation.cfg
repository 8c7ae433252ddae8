SPECIFICATION Spec
CONSTANTS
    MaxBytes = 3
    Slot = {s1, s2}
    BackendRun = {r1, r2}
    LocalRun = {l1}
    ThisDevice = this
    OtherDevice = other
    Nobody = nobody
    MaxVersion = 2
    MaxUpdaters = 2
    Part = {p1}
    Complete = whole
    Object = {good, bad}
    Wanted = good
    Size = 2
    NoTag = notag
    Client = {c1, c2, c3}
    Unlocked = unlocked
SYMMETRY Symmetry
CONSTRAINT Undisturbed
INVARIANTS WorkstationTypeOK LogIsFaithful ImportedOnce KnownImportNotExecuted SyncedHasEnded
    UpdaterOwnsState SuccessWasConfirmed PartialIsOneObject EnvironmentInUseIsComplete
CHECK_DEADLOCK FALSE
