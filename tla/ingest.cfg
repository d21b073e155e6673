SPECIFICATION FairIngestSpec
CONSTANTS
    MaxWorkers = 2
    MaxFragments = 4
    ChannelSize = 1
    QueueSize = 1
    MaxAttempts = 1
INVARIANTS IngestTypeOK NothingSkipped SentInOrder OneWorker SuccessorTakesOver
PROPERTY CompletedIsSent
CHECK_DEADLOCK FALSE
