CONSTANTS
    p1 = p1
    p2 = p2
    Peers <- MCPeers
    RateKinds = {"request"}
    AbuseKinds = {"malformed"}
    Limit <- MCLimit
    Window <- MCWindow
    Threshold = 1
    Sustain = 2
    BanSeconds = 2
    Ttl = 1
    MaxPeerStates = 1
    MaxActiveBans = 1
    PerPeer = 1
    Global = 2
    MaxTime = 4
SYMMETRY PeerSymmetry
SPECIFICATION BoundedSpec
INVARIANTS InflightIsExact ActiveBanIsEnforced
PROPERTY BanIsBacked
