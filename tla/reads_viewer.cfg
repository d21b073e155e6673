SPECIFICATION ReadsSpec
CONSTANTS
    MaxPools = 2
    Capacity = 2
    RecordSizes = {2}
    Cameras <- OneCamera
    DiskId <- ShortIds
    QueueSize = 1
    MaxSegments = 4
    MaxCrashes = 0
    MaxFaults = 0
    MaxReaders = 2
    MaxWait = 1
    Viewers = {v1}
    Exporters = {}
    Blank = Blank
    NoMagic = NoMagic
    NoFile = NoFile
    cam1 = cam1
    cam2 = cam2
INVARIANT ViewersOwnBytes
CHECK_DEADLOCK FALSE
