SPECIFICATION Spec
CONSTANTS
    MaxPools = 3
    Capacity = 1
    RecordSizes = {1}
    Cameras <- OneCamera
    DiskId <- ShortIds
    QueueSize = 1
    MaxSegments = 6
    MaxCrashes = 1
    MaxFaults = 0
    MaxReaders = 0
    MaxWait = 1
    Blank = Blank
    NoMagic = NoMagic
    NoFile = NoFile
    cam1 = cam1
    cam2 = cam2
PROPERTY EvictsOldest
CHECK_DEADLOCK FALSE
