SPECIFICATION FairSpec
CONSTANTS
    c1 = c1
    c2 = c2
    c3 = c3
    Candidates = {c1}
    NoCandidate = NoCandidate
    Shares = {}
    CandidateHeight <- OneHeight
    Heights = {1, 2}
    MaxAttempts = 2
    MaxCycle = 3
    LookupKinds = {"expected_hash", "height"}
    BlocknotifyEnabled = FALSE
    Workers = 2
    ReconciliationSlots = 1
    MaxPendingRequests = 2
    ExhaustDepth = 1
    TrustedMode = FALSE
    MaxHeight = 2
    MaxCrashes = 1
INVARIANTS
    RejectedIsNeverInChain
    CandidatesAreTracked
PROPERTIES
    BlockInChainIsAccepted
    MiningResumes
