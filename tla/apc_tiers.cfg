\* The block pool with three blocks: with a disk tier, where a request may be
\* removed while it is prefilled and a step may raise, and undisturbed without
\* one; the disk store with one writer and two faults of any kind, where the
\* bound on stores ends a behaviour; the model store with four calls, one place
\* in its queues and one load, which may fail.
SPECIFICATION TierSpec
CONSTANTS
    a = a
    ab = ab
    ac = ac
    d = d
    w1 = w1
    s1 = s1
    s2 = s2
    s12 = s12
    s3 = s3
    h1 = h1
    h2 = h2
    h3 = h3
    h4 = h4
    P = P
    Q = Q
    LoRA = LoRA
    NoKey = NoKey
    Keys = {a, ab, ac, d}
    Prompts <- SharedPrompts
    NumBlocks = 3
    MaxLen = 2
    NumRows = 2
    HashLimit = 4
    DiskTier = TRUE
    Faults = {"remove", "raise"}
    LeakBound = 1
    Hashes = {a, ab, d}
    Prefixes <- TwoPrefixes
    Shards = {s1, s2, s12, s3}
    BlocksOf <- ShardBlocks
    Size <- ShardSizes
    Writers = {w1}
    DiskCap = 2
    DiskTarget = 1
    DiskQueue = 2
    NoShard = NoShard
    DiskFaults = {"save", "unlink", "crash"}
    MaxDiskFaults = 2
    MaxStores = 5
    Default = Default
    Inherit = Inherit
    NoAdapter = NoAdapter
    None = None
    Calls = {h1, h2, h3, h4}
    Kind <- Kinds
    Asked <- Names
    Freers = {h1}
    Models <- AllModels
    Generators = {1, 2}
    Depth = 1
    InitialModels <- Preloaded
INVARIANTS
    QueueIsFree
    KeptAlive
    InFlightIsPending
    CountCoversFiles
    AtRestWithinCap
    IndexLeadsToFile
    StoreIsCoherent
    AnsweredByAsked
    WaitersAreKnown
PROPERTIES
    ImplementsLru
    WritesSettle
    LoopComesBack
CHECK_DEADLOCK FALSE
