SPECIFICATION LSpec
CONSTANTS
    Block <- LedgerBlock
    Genesis = "g"
    Parent <- LedgerParent
    Height <- LedgerHeight
    ChainWork <- LedgerWork
    Mined <- LedgerBlock
    Standalone <- LedgerBlock
    Wellformed <- LedgerBlock
    Accepts <- LedgerAccepts
    Early = {}
    ChunkSize = 3
    FinalityDepth = 2
    CoinbaseMaturity = 1
    NoBlock = NoBlock
    MaxOrphans = 1
    Offered = {"a2"}
    MaxCrashes = 1
    Address = {"A", "B", "Z"}
    Transfer <- LedgerTransfer
    BlockTxs <- LedgerTxs
    Coinbase <- LedgerCoinbase
    HeaderRoot <- LedgerRoot
    NoSnapshot = NoSnapshot
    BlockReward = 5
    SnapshotDelay = 0
    MaxAmount = 12
INVARIANTS LedgerIsReplay AcceptanceIsLocal CoinsAccounted NoReplay
