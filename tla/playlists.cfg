SPECIFICATION FairPlaySpec
CONSTANTS
    MaxPools = 3
    Capacity = 1
    RecordSizes = {1}
    Cameras <- TwoCameras
    DiskId <- ShortIds
    QueueSize = 1
    MaxSegments = 4
    MaxCrashes = 1
    MaxFaults = 1
    MaxReaders = 0
    MaxWait = 0
    LiveWindow = 2
    MaxPolls = 1
    Blank = Blank
    NoMagic = NoMagic
    NoFile = NoFile
    Watched <- FirstCamera
    cam1 = cam1
    cam2 = cam2
INVARIANTS PlayTypeOK ListedStaysItself
PROPERTIES LiveForward ReloadShowsSegment ReloadsEnd
CHECK_DEADLOCK FALSE
