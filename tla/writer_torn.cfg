SPECIFICATION Spec
CONSTANTS
    MaxPools = 2
    Capacity = 2
    RecordSizes = {2}
    Cameras <- OneCamera
    DiskId <- ShortIds
    QueueSize = 1
    MaxSegments = 2
    MaxCrashes = 1
    MaxFaults = 0
    MaxReaders = 0
    MaxWait = 1
    Blank = Blank
    NoMagic = NoMagic
    NoFile = NoFile
    cam1 = cam1
    cam2 = cam2
INVARIANT RecoveredWhole
CHECK_DEADLOCK FALSE
