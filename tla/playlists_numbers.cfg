SPECIFICATION PlaySpec
CONSTANTS
    MaxPools = 2
    Capacity = 2
    RecordSizes = {1}
    Cameras <- TwoCameras
    DiskId <- ShortIds
    QueueSize = 1
    MaxSegments = 5
    MaxCrashes = 0
    MaxFaults = 0
    MaxReaders = 0
    MaxWait = 0
    LiveWindow = 2
    MaxPolls = 1
    Blank = Blank
    NoMagic = NoMagic
    NoFile = NoFile
    Watched <- FirstCamera
    cam1 = cam1
    cam2 = cam2
INVARIANT ManifestNamesSegments
CHECK_DEADLOCK FALSE
