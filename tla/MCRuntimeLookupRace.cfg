SPECIFICATION Spec
CONSTANTS
    c1 = c1
    c2 = c2
    c3 = c3
    Candidates = {c1}
    NoCandidate = NoCandidate
    Shares = {}
    CandidateHeight <- OneHeight
    Heights = {1, 2}
    MaxAttempts = 2
    MaxCycle = 2
    LookupKinds = {"expected_hash", "height"}
    BlocknotifyEnabled = FALSE
    Workers = 2
    ReconciliationSlots = 1
    MaxPendingRequests = 2
    ExhaustDepth = 1
    TrustedMode = FALSE
    MaxHeight = 2
    MaxCrashes = 0
INVARIANTS
    DatabaseStaysOperational
