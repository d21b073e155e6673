SPECIFICATION Spec
CONSTANTS
    MaxPools = 2
    Capacity = 3
    RecordSizes = {1, 2, 4}
    Cameras <- TwoCameras
    DiskId <- CutIds
    QueueSize = 1
    MaxSegments = 4
    MaxCrashes = 2
    MaxFaults = 1
    MaxReaders = 0
    MaxWait = 1
    Blank = Blank
    NoMagic = NoMagic
    NoFile = NoFile
    cam1 = cam1
    cam2 = cam2
INVARIANTS IInv IndexedHeaders SessionIntact RecoveredIntact ExtentsDisjoint
PROPERTY RecoveryComplete
CHECK_DEADLOCK FALSE
