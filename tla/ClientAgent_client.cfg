SPECIFICATION FairSpec
CONSTANTS
    Run = {r1}
    Me = me
    Other = other
    None = None
    MaxCached = 2
    MaxLate = 1
INVARIANTS TypeOK OneSubprocess ExecutesOnlyClaimed ClaimedIsKnown SuccessIsReal
PROPERTIES ClaimedRunEnds
