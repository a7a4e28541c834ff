SPECIFICATION Spec
CONSTANTS
    Hosts = {"s", "t", "local"}
    Trusted = {"local"}
    Rate = 1
    Burst = 1
    BucketLimit = 1
    MaxTime = 2
    Sockets = {"w1", "w2"}
    Reading = {"w1"}
    PerHost = 1
    MaxSockets = 1
    Topics = {"x", "y"}
    TopicLists <- ApiLists
    MaxTopics = 1
    QueueLimit = 1
    MaxMessages = 3
    MaxBody = 1
    MaxRequests = 1
INVARIANTS RateBounded HoldingsExact NoGap
PROPERTIES SlowReadersEnd
CHECK_DEADLOCK FALSE
