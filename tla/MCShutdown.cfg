SPECIFICATION BoundedSpec
CONSTANTS
    s1 = s1  s2 = s2  k1 = k1  tpl = tpl  c1 = c1  w1 = w1  w2 = w2
    Tags = {s1, s2}  Capacity = 1
    CandidateThreads = {k1}  TemplateThread = tpl  Threads = {k1, tpl}  Urgent = {k1}
    MaxConcurrent = 1  MaxRpcs = 2  MaxTasks = 1
    Connections = {c1}  MaxRequests = 3  Ids = {1, 2, 3}
    Workers = {w1}  CandidateWorkers = {w2}
    MaxPending = 2  CandidateReserve = 1  MaxPerConnection = 2
CHECK_DEADLOCK FALSE
INVARIANT SlotsAreExact
INVARIANT CompletionsReachTheirShares
INVARIANT CleanStopLosesNothing
INVARIANT SubmitsAreExact
PROPERTY EveryoneReturns
PROPERTY AdmittedIsAnswered
