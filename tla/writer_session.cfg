SPECIFICATION FairSpec
CONSTANTS
    MaxPools = 3
    Capacity = 2
    RecordSizes = {1, 2, 3}
    Cameras <- OneCamera
    DiskId <- ShortIds
    QueueSize = 1
    MaxSegments = 5
    MaxCrashes = 0
    MaxFaults = 1
    MaxReaders = 1
    MaxWait = 1
    Blank = Blank
    NoMagic = NoMagic
    NoFile = NoFile
    cam1 = cam1
    cam2 = cam2
INVARIANTS TypeOK IdsChronological
PROPERTIES ImplementsRecording EveryRequestSettles
CHECK_DEADLOCK FALSE
