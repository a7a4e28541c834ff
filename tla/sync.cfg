SPECIFICATION PSpec
CONSTANTS
    Block <- SyncBlock
    Genesis = "g"
    Parent <- SyncParent
    Height <- SyncHeight
    ChainWork <- SyncWork
    Mined <- SyncMined
    Standalone <- SyncMined
    Wellformed <- SyncMined
    Accepts <- SyncAccepts
    Early = {"b2"}
    ChunkSize = 2
    FinalityDepth = 1
    CoinbaseMaturity = 2
    NoBlock = NoBlock
    MaxOrphans = 2
    Offered = {}
    MaxCrashes = 0
    Peer <- SyncPeers
    NoPeer = NoPeer
    Tips <- SyncTips
    Chunks <- SyncChunks
    Slow = {"f"}
    Faulty = {"f"}
    HeaderOk <- SyncHeaderOk
    MaxHeaders = 2
    BatchSize = 2
    MaxPending = 3
INVARIANTS SyncAlive ChecksAreCurrent HonestNotBanned
PROPERTIES ClaimsSettled
CHECK_DEADLOCK FALSE
