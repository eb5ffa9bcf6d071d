SPECIFICATION BoundedStoreSpec
CONSTANTS
    c1 = c1
    c2 = c2
    Candidates = {c1, c2}
    NoCandidate = NoCandidate
    Shares = {1, 2}
    CandidateHeight <- SameHeight
    Heights = {1, 2}
    MaxAttempts = 2
    MaxCycle = 1
    LookupKinds = {"height"}
    BlocknotifyEnabled = TRUE
INVARIANT EvidenceAwaitsOutcome
