SPECIFICATION Spec
CONSTANTS
    Releases = {1, 2, 3}
    Builds = {b1, b2}
    Beta = {3}
    Flagged = {2}
    Retention = 2
    MaxBroken = 1
    Stored = {s1, s2}
    Uploader = {u1, u2}
    Creator = {c1}
    Deleter = d
    Attempt = {a1}
    Group = {g1}
    Nobody = nobody
    MaxRevision = 2
    MaxAge = 1
SYMMETRY Symmetry
INVARIANTS ServerPartsTypeOK IndexedIsServed ListedScriptsHaveFiles SettledServerIsConsistent
    DeletedScriptHasNoActiveRun RevisionsKeepTheirFiles RevokedScriptsStop
PROPERTIES ChannelNeverGoesBack
CHECK_DEADLOCK FALSE
