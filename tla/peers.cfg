SPECIFICATION Spec
CONSTANTS
    Urls = {"a", "m", "p"}
    Rank <- PeerRank
    Connect = {"a"}
    Seeds = {"m"}
    ListenUrl = "none"
    NoUrl = "none"
    Me = "me"
    Nodes = {"A", "L"}
    At <- PeerAt
    UrlHost <- PeerUrlHost
    NodeHost <- PeerNodeHost
    Listen <- PeerListen
    LocalHosts = {"lan", "here"}
    Loopback = {"here"}
    TargetOutbound = 1
    MaxInbound = 1
    MaxPerHost = 1
    DropAfter = 1
    Slots = {1, 2, 3}
    MaxBans = 1
    MaxRestarts = 1
INVARIANTS SlotsBounded OneConnectionPerNode PrivateVouched
PROPERTIES  KeepsTrying
CHECK_DEADLOCK FALSE
