SPECIFICATION FairReadsSpec
CONSTANTS
    MaxPools = 2
    Capacity = 2
    RecordSizes = {2}
    Cameras <- OneCamera
    DiskId <- ShortIds
    QueueSize = 1
    MaxSegments = 3
    MaxCrashes = 1
    MaxFaults = 0
    MaxReaders = 3
    MaxWait = 0
    Viewers = {v1, v2}
    Exporters = {x1}
    Blank = Blank
    NoMagic = NoMagic
    NoFile = NoFile
    cam1 = cam1
    cam2 = cam2
INVARIANTS ReadsTypeOK ExportsOwnBytes NoReadDuringAppend GuardsBalanced
PROPERTY ReadersDoNotStopWriter
CHECK_DEADLOCK FALSE
