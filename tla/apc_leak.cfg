\* A request is removed while it is prefilled alone.
SPECIFICATION Spec
CONSTANTS
    a = a
    ab = ab
    ac = ac
    d = d
    NoKey = NoKey
    Keys = {a, ab, ac, d}
    Prompts <- SharedPrompts
    NumBlocks = 3
    MaxLen = 2
    NumRows = 2
    HashLimit = 4
    DiskTier = FALSE
    Faults = {"remove"}
    LeakBound = 1
INVARIANTS
    AcquiredIsReleased
