SPECIFICATION Spec
CONSTANTS
    Batch = {b1}
    Items = 3
    Worker = {w1, w2, w3}
    MaxEffects = 2
SYMMETRY Symmetry
INVARIANTS TypeOK CompletedMeansDone LeaseExcludes ResultTellsEffect
PROPERTIES HolderRepeatsNothing
CHECK_DEADLOCK FALSE
