SPECIFICATION PSpec
CONSTANTS
    Block <- SyncBlock
    Genesis = "g"
    Parent <- SyncParent
    Height <- SyncHeight
    ChainWork <- SyncWork
    Mined <- SyncMined
    Standalone <- SyncMined
    Wellformed <- SyncMined
    Accepts <- SyncAccepts
    Early = {}
    ChunkSize = 2
    FinalityDepth = 1
    CoinbaseMaturity = 2
    NoBlock = NoBlock
    MaxOrphans = 2
    Offered = {}
    MaxCrashes = 0
    Peer <- GrowingPeer
    NoPeer = NoPeer
    Tips <- GrowingTips
    Chunks <- GrowingChunks
    Slow = {}
    Faulty = {}
    HeaderOk <- SyncHeaderOk
    MaxHeaders = 4
    BatchSize = 4
    MaxPending = 4
CHECK_DEADLOCK FALSE
PROPERTY CatchesUp
