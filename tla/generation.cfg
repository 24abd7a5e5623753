\* Two slots for three requests, one of them with embeddings; any one fault.
SPECIFICATION FairSpec
CONSTANTS
    a = a
    b = b
    c = c
    Requests <- ThreeRequests
    Embeds <- OneEmbeds
    Length <- Lengths
    Releasers <- OneReleaser
    MaxNumSeqs = 2
    PrefillBatch = 2
    QueueDepth = 2
    MaxTokens = 2
    MaxChunks = 1
    Modes <- Both
    Faults <- AllFaults
    MaxFaults = 1
INVARIANTS
    TypeOK
    AnsweredHasRow
    AnswersStayApart
    NoRequestVanishes
    EndsOnce
PROPERTIES
    RequestsSettle
CHECK_DEADLOCK FALSE
