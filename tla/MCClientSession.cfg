SPECIFICATION Spec
CONSTANTS
    MaxRooms = 2
    MaxLoads = 2
    MaxDrops = 3
    MaxStrays = 1
PROPERTIES
    StoresFollowSession
    StuckOnlyByLoss
    PlayersReachTheTable
    ButtonsComeBack
CHECK_DEADLOCK FALSE
