SPECIFICATION Spec
CONSTANTS
    Workers = 2
    NonceLimit = 4
    Starts <- MiningStarts
    Blocks = 1
    MaxMoves = 1
    MaxRefreshes = 1
INVARIANTS SolvesTemplate StaleWorkStops
PROPERTIES WorkersHear FollowsTip
CHECK_DEADLOCK FALSE
