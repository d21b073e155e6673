SPECIFICATION FairAdminSpec
CONSTANTS
    Cameras <- TwoCameras
    Limited <- SecondCamera
    Clients = {a1, a2}
    InitialFiles <- Files
    cam1 = cam1
    cam2 = cam2
INVARIANTS AdminTypeOK FileFollowsMemory EveryWorkerListed ListedAreActive
PROPERTIES RestartRestores RequestsAnswered
CHECK_DEADLOCK FALSE
