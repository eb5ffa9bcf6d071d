SPECIFICATION FairSpec
CONSTANTS
    c1 = c1  x1 = x1
    SeedIds <- MCSeedIds  Hashes <- MCHashes  MaxSeeds = 2
    Connections = {c1}  Shares = {x1}
    MaxHeight = 3  EpochLength = 1  ReorgDepth = 1
    MaxOutstanding = 1  MaxMoves = 2  MaxFailures = 1
INVARIANT UsedSeedStaysReady
PROPERTY RotationSettles
