\* Every disturbance: failed harvests and resets from another thread too.
SPECIFICATION Spec
CONSTANTS
    a = a
    ab = ab
    ac = ac
    d = d
    NoKey = NoKey
    Keys = {a, ab, ac, d}
    Prompts <- SharedPrompts
    NumBlocks = 2
    MaxLen = 2
    NumRows = 2
    HashLimit = 3
    DiskTier = TRUE
    Faults = {"remove", "raise", "harvest", "reset"}
    LeakBound = 1
INVARIANTS
    LookupIsExact
