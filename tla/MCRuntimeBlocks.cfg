SPECIFICATION Spec
CONSTANTS
    c1 = c1
    c2 = c2
    c3 = c3
    Candidates = {c1, c2, c3}
    NoCandidate = NoCandidate
    Shares = {}
    CandidateHeight <- SiblingHeights
    Heights = {1, 2, 3}
    MaxAttempts = 1
    MaxCycle = 1
    LookupKinds = {"expected_hash", "height"}
    BlocknotifyEnabled = FALSE
    Workers = 2
    ReconciliationSlots = 1
    MaxPendingRequests = 2
    ExhaustDepth = 1
    TrustedMode = FALSE
    MaxHeight = 3
    MaxCrashes = 2
INVARIANTS
    PublishedWorkIsUseful
    BlockInChainIsRecordable
