SPECIFICATION ServicesSpec
CONSTANTS
    w1 = w1  w2 = w2  f = f  c1 = c1  p1 = p1  p2 = p2  p3 = p3  h1 = h1  h2 = h2  s1 = s1  s2 = s2
    Callers = {w1, w2, f}  Priority = {w1}  Forwarder = f
    MaxItems = 2  MaxBytes = 2  ReservedItems = 1  EnvelopeBytes = 1
    Clients = {c1}  MaxClients = 1  MaxFrames = 2
    Batch = 2  PageLimit = 1  MaxFailures = 1
    Peers = {p1, p2}  HttpWorkers = {h1, h2}  MaxConnections = 3  QueueLimit = 2
    PerPeer = 2  MaxRequests = 2  MaxAccepted = 4
    Askers = {p1, p2, p3}  Rate = 1  Burst = 2  BucketLimit = 2  MinStale = 1  Grain = 2
    Blocks = {1, 2}  Broken = {1}  LastDelay = 2  MaxRestarts = 1
    ReseedInterval = 3  MaxReseedAge = 5  MaxGenerateCalls = 2  MaxDelay = 3
    Shares = {s1, s2}  Segments = {verified, claimed}  Heights = {1, 2}
    Difficulty <- OddDifficulty  FlushLimit = 2  MaxRounds = 2
    Base = 4  HashLimbs = 4  DiffLimbs = 2  WordLimbs = 2
    Symbols = {0, 1, 2, 5, 8, 9, 10}  MaxText = 2  Assigned = {1, 3, 8}
    Group = 4  MaxVarint = 3  LastByte = 1  MaxLeaves = 17
CHECK_DEADLOCK FALSE
INVARIANT ReadersMissNothing
INVARIANT HttpCountsAreExact
INVARIANT ForgettingIsFree
INVARIANT OutputsAreFresh
INVARIANT TargetsAreExact
INVARIANT SerializationIsExact
PROPERTY CommittedIsStreamed
PROPERTY QueueIsServed
PROPERTY BlocksAreNotified
PROPERTY IssuanceRecovers
PROPERTY ClosedRoundIsFinalized
INVARIANT WriterQueueIsSound
INVARIANT HooksAreSupervised
INVARIANT AccountingIsExact
