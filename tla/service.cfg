SPECIFICATION SSpec
CONSTANTS
    Block <- ServiceBlock
    Genesis = "g"
    Parent <- ServiceParent
    Height <- ServiceHeight
    ChainWork <- ServiceWork
    Mined <- ServiceBlock
    Standalone <- ServiceBlock
    Wellformed <- ServiceBlock
    Accepts <- ServiceBlock
    Early = {}
    ChunkSize = 4
    FinalityDepth = 3
    CoinbaseMaturity = 1
    NoBlock = NoBlock
    MaxOrphans = 2
    Offered = {"a3"}
    MaxCrashes = 1
    Address = {"A", "B"}
    Transfer <- ServiceTransfer
    BlockTxs <- ServiceTxs
    Coinbase <- ServiceCoinbase
    HeaderRoot <- ServiceRoot
    NoSnapshot = NoSnapshot
    BlockReward = 6
    SnapshotDelay = 3
    MaxAmount = 100
    TxSize <- ServiceSize
    MinFeePerByte = 1
    MaxBytes = 4
    MaxPerSender = 2
    Offers = {"p0", "p0r", "p1", "q0", "q1"}
    Room = 2
INVARIANTS PoolFollowsChain EvictionWorks TemplateAccepted
