SPECIFICATION FairSpec
CONSTANTS
    c1 = c1  i1 = i1  i2 = i2  i3 = i3  w1 = w1  k1 = k1
    Connections = {c1}  MaxRequests = 1  Ids = {i1}
    Workers = {w1}  CandidateWorkers = {k1}
    MaxPending = 2  CandidateReserve = 1  MaxPerConnection = 2
CHECK_DEADLOCK FALSE
PROPERTY StopReturns
