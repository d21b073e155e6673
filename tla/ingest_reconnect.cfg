SPECIFICATION FairIngestSpec
CONSTANTS
    MaxWorkers = 2
    MaxFragments = 4
    ChannelSize = 1
    QueueSize = 1
    MaxAttempts = 1
PROPERTY Reconnects
CHECK_DEADLOCK FALSE
