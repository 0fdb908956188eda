SPECIFICATION Spec
CONSTANTS
    Calls <- MCCalls
    Rooms <- MCRooms
    RoomOf <- MCRoomOf
    Hanging <- MCHanging
INVARIANTS
    TypeOK
    MutualExclusion
PROPERTIES
    HangingBlocksOneRoom
    ImplementsFifoMutex
CHECK_DEADLOCK FALSE
